---- MODULE Spec2Model ----
(***************************************************************************)
(* PnL Traden: ledger ingestion (CSV import, remote snapshot sync), the    *)
(* Dexie "trades" table and the refresh cycle.                             *)
(*                                                                         *)
(* The repository holds four variants of the application script:           *)
(*   "app1"     src/site/app.js lines 1-780      (live JSON, sanitizeRow)  *)
(*   "part_000" src/unnamed/part_000             (tradeKey primary key,    *)
(*              also src/site/app.js 781-2177)     bulkPut)                *)
(*   "app3"     src/site/app.js lines 2178-2824  (account log only)        *)
(*   "part_001" src/unnamed/part_001             (++id table, bulkAdd)     *)
(* The variable `variant` selects the script that is running.              *)
(*                                                                         *)
(* Representation.  JavaScript strings are TLA+ strings; "" also stands    *)
(* for null/undefined (every use in the code treats them alike through     *)
(* ||, safeText or String).  Money amounts are integers.  A JSON number    *)
(* that may be absent is <<>> (null/undefined) or <<n>>.  A date string is *)
(* a record [k, t, s]: k is the textual form, t the instant it denotes,    *)
(* s the text when the form is not a date.                                 *)
(***************************************************************************)
EXTENDS Integers, Sequences, FiniteSets, TLC

VARIABLES
    variant,   \* which script is running
    hostTz,    \* the host's time zone offset (new Date(text) reads local time)
    trades,    \* db.trades: the table's rows in insertion order
    last,      \* what the handler that ran last did (status line, result)
    tasks,     \* the async handlers in flight, each at its await
    timer,     \* TRUE once init has called setInterval
    state,     \* the script's `state` object: currency, fx
    localStorage   \* localStorage[FX_CACHE_KEY]: the persisted FX cache

vars == <<variant, hostTz, trades, last, tasks, timer, state, localStorage>>

\* ---------------------------------------------------------------- bounds

MaxStore == 3      \* rows the table may hold before ingestion is cut off
MaxNum == 12       \* numeric cells and amounts range over -MaxNum..MaxNum
MaxMissing == 2    \* signature names a header list may lack of one format
MaxTasks == 2      \* async handlers that may be in flight together
MaxDraws == 1      \* Math.random() draws of one batch that may differ

\* ------------------------------------------------------ program constants

REFRESH_MS == 30000

Variants == {"app1", "part_000", "app3", "part_001"}

\* ----------------------------------------------------------- sequences

Range(s) == {s[i] : i \in DOMAIN s}

\* Array.prototype.join
RECURSIVE join(_, _)
join(s, sep) ==
    IF s = <<>> THEN ""
    ELSE IF Len(s) = 1 THEN s[1]
    ELSE s[1] \o sep \o join(Tail(s), sep)

\* Array.prototype.slice(0, n)
slice0(s, n) == SubSeq(s, 1, IF Len(s) < n THEN Len(s) ELSE n)

\* ------------------------------------------------------------- numbers

NumRange == (0 - MaxNum)..MaxNum

abs(n) == IF n < 0 THEN 0 - n ELSE n

\* parseNumber on the cells the model feeds it: "" and "--" and any text
\* without a digit give 0, a decimal integer literal gives its value.
NumText == [n \in NumRange |-> ToString(n)]

parseNumber(x) ==
    IF \E n \in NumRange : NumText[n] = x
    THEN CHOOSE n \in NumRange : NumText[n] = x
    ELSE 0

\* Number(v || 0) of a JSON number that may be absent
NumberOr0(v) == IF v = <<>> THEN 0 ELSE v[1]

\* a || b on strings
Or(a, b) == IF a # "" THEN a ELSE b

\* --------------------------------------------------------------- dates

NoDate == [k |-> "none", t |-> 0, s |-> ""]          \* "", null, undefined
IsoMs(t) == [k |-> "isoMs", t |-> t, s |-> ""]       \* Date.toISOString()
IsoSec(t) == [k |-> "isoSec", t |-> t, s |-> ""]     \* YYYY-MM-DDTHH:MM:SSZ
RawText(s, t) == [k |-> "raw", t |-> t, s |-> s]     \* any other text

\* the characters of a date string, as far as keys built from it differ
DtStr(d) ==
    CASE d.k = "none" -> ""
      [] d.k = "isoMs" -> "T" \o ToString(d.t) \o ".000Z"
      [] d.k = "isoSec" -> "T" \o ToString(d.t) \o "Z"
      [] OTHER -> d.s \o ToString(d.t)

\* ------------------------------------------------ remote snapshot rows

\* normalizeApiRows, the `rows` shape: one canonical row per JSON row; i is
\* the row's index in data.rows (from 0)
apiRow(r, i) ==
    LET exchange == Or(r.exchange, "KRAKEN")
        realized == NumberOr0(r.realizedPnlUsd)
        fees == NumberOr0(r.feesUsd)
        funding == NumberOr0(r.fundingUsd)
        net == IF r.netPnlUsd # <<>> THEN r.netPnlUsd[1]
               ELSE realized - fees + funding
    IN  [datetime |-> r.datetime,
         exchange |-> exchange,
         symbol |-> r.symbol,
         marketType |-> Or(r.marketType, "FUTURES"),
         side |-> r.side,
         qty |-> NumberOr0(r.qty),
         price |-> NumberOr0(r.price),
         realizedPnlUsd |-> realized,
         feesUsd |-> fees,
         fundingUsd |-> funding,
         netPnlUsd |-> net,
         notes |-> r.notes,
         tradeKey |-> IF r.tradeKey # "" THEN r.tradeKey
                      ELSE exchange \o "|" \o r.symbol \o "|" \o DtStr(r.datetime)
                           \o "|" \o ToString(net) \o "|" \o ToString(i)]

\* normalizeApiRows, the legacy `closed_trades` shape
legacyRow(t) ==
    LET datetime == IF t.exit_dt.k # "none" THEN t.exit_dt ELSE t.entry_dt
        realized == NumberOr0(t.realized_pnl)
        fees == NumberOr0(t.fees)
        funding == NumberOr0(t.funding)
    IN  [datetime |-> datetime,
         exchange |-> "KRAKEN",
         symbol |-> t.symbol,
         marketType |-> "FUTURES",
         side |-> t.direction,
         qty |-> NumberOr0(t.qty),
         price |-> IF NumberOr0(t.exit_price) # 0 THEN NumberOr0(t.exit_price)
                   ELSE NumberOr0(t.entry_price),
         realizedPnlUsd |-> realized,
         feesUsd |-> fees,
         fundingUsd |-> funding,
         netPnlUsd |-> IF t.net_pnl # <<>> THEN t.net_pnl[1]
                       ELSE realized - fees + funding,
         notes |-> "entry:" \o t.entry_fill_id \o " exit:" \o t.exit_fill_id,
         tradeKey |-> "KRAKENF_API|" \o t.entry_fill_id \o "|" \o t.exit_fill_id
                      \o "|" \o t.symbol \o "|" \o DtStr(datetime)]

HasDatetime(x) == x.datetime.k # "none"

normalizeApiRows(data) ==
    IF data.shape = "rows"
    THEN SelectSeq([i \in DOMAIN data.rows |-> apiRow(data.rows[i], i - 1)],
                   HasDatetime)
    ELSE LET dated(t) == t.exit_dt.k # "none" \/ t.entry_dt.k # "none"
             kept == SelectSeq(data.closed_trades, dated)
         IN  [i \in DOMAIN kept |-> legacyRow(kept[i])]

\* sanitizeRow: now is the clock (Date.now(), new Date()), rnd the text of
\* Math.random()
sanitizeRow(r, now, rnd) ==
    [datetime |-> IF r.datetime.k # "none" THEN r.datetime ELSE IsoMs(now),
     exchange |-> Or(r.exchange, "UNKNOWN"),
     symbol |-> r.symbol,
     marketType |-> Or(r.marketType, "UNKNOWN"),
     side |-> r.side,
     qty |-> NumberOr0(r.qty),
     price |-> NumberOr0(r.price),
     realizedPnlUsd |-> NumberOr0(r.realizedPnlUsd),
     feesUsd |-> NumberOr0(r.feesUsd),
     fundingUsd |-> NumberOr0(r.fundingUsd),
     netPnlUsd |-> NumberOr0(r.netPnlUsd),
     notes |-> r.notes,
     tradeKey |-> IF r.tradeKey # "" THEN r.tradeKey
                  ELSE Or(r.exchange, "X") \o "|"
                       \o (IF r.datetime.k # "none" THEN DtStr(r.datetime)
                           ELSE ToString(now))
                       \o "|" \o r.symbol \o "|" \o rnd]

\* a JSON row stored as it came (app3 hands payload.rows to upsertTrades);
\* every later read of an absent number goes through `|| 0`
rawRow(r) ==
    [datetime |-> r.datetime,
     exchange |-> r.exchange,
     symbol |-> r.symbol,
     marketType |-> r.marketType,
     side |-> r.side,
     qty |-> NumberOr0(r.qty),
     price |-> NumberOr0(r.price),
     realizedPnlUsd |-> NumberOr0(r.realizedPnlUsd),
     feesUsd |-> NumberOr0(r.feesUsd),
     fundingUsd |-> NumberOr0(r.fundingUsd),
     netPnlUsd |-> NumberOr0(r.netPnlUsd),
     notes |-> r.notes,
     tradeKey |-> r.tradeKey]

\* ------------------------------------------------------ the trades table

Keys(table) == {table[i].tradeKey : i \in DOMAIN table}

\* Table.put on a table whose primary key is tradeKey: the row with that
\* key is replaced where it stands, a new key is added
put(table, r) ==
    IF \E j \in DOMAIN table : table[j].tradeKey = r.tradeKey
    THEN LET j == CHOOSE j \in DOMAIN table : table[j].tradeKey = r.tradeKey
         IN  [table EXCEPT ![j] = r]
    ELSE Append(table, r)

\* Table.bulkPut: the rows are put in the order given
RECURSIVE bulkPut(_, _)
bulkPut(table, rows) ==
    IF rows = <<>> THEN table
    ELSE bulkPut(put(table, Head(rows)), Tail(rows))

\* a write that keeps only the rows given
bulkOnly(table, rows) == rows

\* Table.bulkAdd on the "++id, tradeKey, ..." table: id is the primary key,
\* tradeKey a plain (not unique) index, so every row is added
bulkAdd(table, rows) == table \o rows

\* upsertTrades, first part: every row gets a tradeKey (idx counts from 0)
fallbackKey(r, idx) ==
    join(<<r.exchange, r.marketType, r.symbol, DtStr(r.datetime),
           ToString(r.netPnlUsd), ToString(r.feesUsd), ToString(r.fundingUsd),
           ToString(idx)>>, "|")

withTradeKeys(rows) ==
    [i \in DOMAIN rows |->
        IF rows[i].tradeKey # "" THEN rows[i]
        ELSE [rows[i] EXCEPT !.tradeKey = fallbackKey(rows[i], i - 1)]]

HasKey(r) == r.tradeKey # ""

\* the rows upsertTrades works on after its own key pass
upsertInput(v, rows) ==
    IF v \in {"part_000", "part_001"} THEN withTradeKeys(rows) ELSE rows

\* the rows upsertTrades writes, given the keys it read from the table
\* (part_000 reads none: bulkPut takes every keyed row)
upsertSelect(v, rows, keySet) ==
    LET isNew(r) == r.tradeKey # "" /\ r.tradeKey \notin keySet
    IN  IF v = "part_000" THEN SelectSeq(upsertInput(v, rows), HasKey)
        ELSE SelectSeq(upsertInput(v, rows), isNew)

\* the write upsertTrades issues
upsertWrite(v, table, toWrite) ==
    IF toWrite = <<>> THEN table
    ELSE IF v = "part_000" THEN bulkPut(table, toWrite)
    ELSE bulkAdd(table, toWrite)

\* upsertTrades run without interruption: the table after it and the
\* { added, skipped } it returns
upsertTrades(v, table, rows) ==
    LET toWrite == upsertSelect(v, rows, Keys(table))
    IN  [table |-> upsertWrite(v, table, toWrite),
         added |-> Len(toWrite),
         skipped |-> Len(upsertInput(v, rows)) - Len(toWrite)]

\* ------------------------------------------------------------ CSV headers

\* The byte order mark U+FEFF is written as the five characters <BOM>.
BOM == "<BOM>"

startsWith(s, p) == Len(s) >= Len(p) /\ SubSeq(s, 1, Len(p)) = p
endsWith(s, p) == Len(s) >= Len(p) /\ SubSeq(s, Len(s) - Len(p) + 1, Len(s)) = p

\* String.prototype.trim: white space, which in JavaScript includes U+FEFF,
\* is removed from both ends
RECURSIVE trim(_)
trim(s) ==
    IF startsWith(s, " ") THEN trim(SubSeq(s, 2, Len(s)))
    ELSE IF startsWith(s, BOM) THEN trim(SubSeq(s, Len(BOM) + 1, Len(s)))
    ELSE IF endsWith(s, " ") THEN trim(SubSeq(s, 1, Len(s) - 1))
    ELSE IF endsWith(s, BOM) THEN trim(SubSeq(s, 1, Len(s) - Len(BOM)))
    ELSE s

\* s.replace(/^\uFEFF/, "")
stripBom(s) == IF startsWith(s, BOM) THEN SubSeq(s, Len(BOM) + 1, Len(s)) ELSE s

LowerOf ==
    [A |-> "a", B |-> "b", C |-> "c", D |-> "d", E |-> "e", F |-> "f",
     G |-> "g", H |-> "h", I |-> "i", J |-> "j", K |-> "k", L |-> "l",
     M |-> "m", N |-> "n", O |-> "o", P |-> "p", Q |-> "q", R |-> "r",
     S |-> "s", T |-> "t", U |-> "u", V |-> "v", W |-> "w", X |-> "x",
     Y |-> "y", Z |-> "z"]

lowerChar(c) == IF c \in DOMAIN LowerOf THEN LowerOf[c] ELSE c

RECURSIVE toLowerCase(_)
toLowerCase(s) ==
    IF s = "" THEN ""
    ELSE lowerChar(SubSeq(s, 1, 1)) \o toLowerCase(SubSeq(s, 2, Len(s)))

includes(h, x) == \E i \in DOMAIN h : h[i] = x

CsvTypes == {"BLOFIN_ORDER_HISTORY", "KRAKEN_TRADES",
             "KRAKEN_FUTURES_ACCOUNT_LOG", "UNKNOWN"}

\* a detector whose Kraken trades rule does not ask for "ordertype"
detectCsvTypeLoose(headers) ==
    LET h == [i \in DOMAIN headers |-> stripBom(trim(headers[i]))]
    IN  IF includes(h, "Underlying Asset") /\ includes(h, "Order Time")
           /\ includes(h, "PNL") /\ includes(h, "Fee")
        THEN "BLOFIN_ORDER_HISTORY"
        ELSE IF includes(h, "txid") /\ includes(h, "pair") /\ includes(h, "time")
        THEN "KRAKEN_TRADES"
        ELSE IF includes(h, "uid") /\ includes(h, "dateTime")
                /\ includes(h, "type") /\ includes(h, "change")
                /\ (includes(h, "contract") \/ includes(h, "symbol"))
        THEN "KRAKEN_FUTURES_ACCOUNT_LOG"
        ELSE "UNKNOWN"

\* detectCsvType of part_000 and part_001: the names are compared as written
detectCsvTypeExact(headers) ==
    LET h == [i \in DOMAIN headers |-> stripBom(trim(headers[i]))]
    IN  IF includes(h, "Underlying Asset") /\ includes(h, "Order Time")
           /\ includes(h, "PNL") /\ includes(h, "Fee")
        THEN "BLOFIN_ORDER_HISTORY"
        ELSE IF includes(h, "txid") /\ includes(h, "ordertype")
                /\ includes(h, "pair") /\ includes(h, "time")
        THEN "KRAKEN_TRADES"
        ELSE IF includes(h, "uid") /\ includes(h, "dateTime")
                /\ includes(h, "type") /\ includes(h, "change")
                /\ (includes(h, "contract") \/ includes(h, "symbol"))
        THEN "KRAKEN_FUTURES_ACCOUNT_LOG"
        ELSE "UNKNOWN"

\* detectCsvType of src/site/app.js, first script: lower-cased names
detectCsvTypeLive(headers) ==
    LET h == [i \in DOMAIN headers |-> toLowerCase(stripBom(trim(headers[i])))]
    IN  IF includes(h, "underlying asset") /\ includes(h, "order time")
           /\ includes(h, "pnl") /\ includes(h, "fee")
        THEN "BLOFIN_ORDER_HISTORY"
        ELSE IF includes(h, "txid") /\ includes(h, "pair") /\ includes(h, "time")
        THEN "KRAKEN_TRADES"
        ELSE IF includes(h, "uid") /\ includes(h, "datetime")
                /\ includes(h, "type") /\ includes(h, "realized pnl")
        THEN "KRAKEN_FUTURES_ACCOUNT_LOG"
        ELSE "UNKNOWN"

\* detectCsvType of src/site/app.js, third script: the account log only
detectCsvTypeLog(headers) ==
    LET h == [i \in DOMAIN headers |-> toLowerCase(stripBom(trim(headers[i])))]
    IN  IF includes(h, "uid") /\ includes(h, "datetime") /\ includes(h, "type")
           /\ includes(h, "realized pnl") /\ includes(h, "fee")
           /\ includes(h, "realized funding")
        THEN "KRAKEN_FUTURES_ACCOUNT_LOG"
        ELSE "UNKNOWN"

detectCsvType(v, headers) ==
    CASE v = "app1" -> detectCsvTypeLive(headers)
      [] v = "app3" -> detectCsvTypeLog(headers)
      [] OTHER -> detectCsvTypeExact(headers)

\* -------------------------------------------------------------- CSV rows

\* A row object of rowsToObjects is a function from the file's header names
\* to cells.  o[c] of a column the file lacks is undefined.
Get(o, c) == IF c \in DOMAIN o THEN o[c] ELSE ""

\* A date cell is [f, t]: f the way the text is written, t its instant.
\*   "isoSpace" 2026-01-11 21:24:14      "isoT"  2026-01-11T21:24:14
\*   "isoZ"     2026-01-11T21:24:14Z     "dMonY" 11/Jan/2026 21:24:14
\*   "mdy"      01/11/2026 21:24:14      "text"  anything else, "empty" ""
EmptyCell == [f |-> "empty", t |-> 0]
GetDate(o, c) == IF c \in DOMAIN o THEN o[c] ELSE EmptyCell
OrDate(a, b) == IF a.f # "empty" THEN a ELSE b

\* the characters of a date cell
CellStr(c) == IF c.f = "empty" THEN "" ELSE c.f \o ":" \o ToString(c.t)

\* String.prototype.includes
contains(s, sub) ==
    \E i \in 1..(Len(s) - Len(sub) + 1) : SubSeq(s, i, i + Len(sub) - 1) = sub

toIsoDateTimeFromBlofin(c) == IF c.f = "mdy" THEN IsoMs(c.t) ELSE NoDate

toIsoFromUnixSeconds(sec) ==
    LET n == parseNumber(sec) IN IF n = 0 THEN NoDate ELSE IsoMs(n)

\* parseKrakenFuturesDateTime (app3).  A text that is neither ISO nor
\* DD/Mon/YYYY goes to new Date(s), which reads a date without a zone as
\* local time: tz is the host's offset.
parseKrakenFuturesDateTime(c, tz) ==
    CASE c.f = "empty" -> NoDate
      [] c.f \in {"isoT", "isoZ"} -> IsoMs(c.t)
      [] c.f = "dMonY" -> IsoMs(c.t)
      [] c.f \in {"isoSpace", "mdy"} -> IsoMs(c.t + tz)
      [] OTHER -> NoDate

sideOf(text) == IF contains(toLowerCase(text), "sell") THEN "SELL" ELSE "BUY"

\* normalizeBlofin, one row: <<>> when the loop skips it
blofinRow(v, o) ==
    LET pnlRaw == trim(Get(o, "PNL"))
        datetime == toIsoDateTimeFromBlofin(GetDate(o, "Order Time"))
        symbol == IF v = "app1" THEN trim(Get(o, "Underlying Asset"))
                  ELSE Get(o, "Underlying Asset")
        sideRaw == Get(o, "Side")
        side == sideOf(sideRaw)
        qty == parseNumber(Get(o, "Filled"))
        price == IF parseNumber(Get(o, "Avg Fill")) # 0
                 THEN parseNumber(Get(o, "Avg Fill"))
                 ELSE parseNumber(Get(o, "Price"))
        pnlUsd == parseNumber(Get(o, "PNL"))
        feeUsd == abs(parseNumber(Get(o, "Fee")))
        fundingUsd == 0
        netUsd == pnlUsd - feeUsd + fundingUsd
    IN  IF toLowerCase(Get(o, "Status")) # "filled" THEN <<>>
        ELSE IF pnlRaw = "" \/ pnlRaw = "--" THEN <<>>
        ELSE IF v = "app1" /\ datetime.k = "none" THEN <<>>
        ELSE <<[datetime |-> datetime,
                exchange |-> "BLOFIN",
                symbol |-> symbol,
                marketType |-> "FUTURES",
                side |-> side,
                qty |-> qty,
                price |-> price,
                realizedPnlUsd |-> pnlUsd,
                feesUsd |-> feeUsd,
                fundingUsd |-> fundingUsd,
                netPnlUsd |-> netUsd,
                notes |-> Or(Get(o, "Order Options"), Get(o, "Status")),
                tradeKey |-> join(<<"BLOFIN", CellStr(GetDate(o, "Order Time")),
                                    symbol,
                                    IF v = "app1" THEN side ELSE sideRaw,
                                    ToString(qty), ToString(price),
                                    ToString(pnlUsd), ToString(feeUsd)>>, "|")]>>

RECURSIVE flatten(_)
flatten(ss) == IF ss = <<>> THEN <<>> ELSE Head(ss) \o flatten(Tail(ss))

normalizeBlofin(v, objs) ==
    SelectSeq(flatten([i \in DOMAIN objs |-> blofinRow(v, objs[i])]), HasDatetime)

Or3(a, b, c) == Or(Or(a, b), c)

\* normalizeKraken (part_000, part_001), one row
krakenRow(o) ==
    LET time == Get(o, "time")
        datetime == IF time # "" THEN toIsoFromUnixSeconds(time) ELSE NoDate
        symbol == Or(Get(o, "pair"), Get(o, "symbol"))
        type == Or(Get(o, "type"), Get(o, "side"))
        qty == parseNumber(Or3(Get(o, "vol"), Get(o, "qty"), Get(o, "volume")))
        price == parseNumber(Or(Get(o, "price"), Get(o, "avgPrice")))
        feeUsd == abs(parseNumber(Or(Get(o, "fee"), Get(o, "cfee"))))
        netUsd == parseNumber(Or(Get(o, "net"), Get(o, "pnl")))
        pnlUsd == IF Get(o, "pnl") # "" THEN parseNumber(Get(o, "pnl"))
                  ELSE netUsd + feeUsd
        fundingUsd == parseNumber(Get(o, "funding"))
        netCalc == pnlUsd - feeUsd + fundingUsd
    IN  [datetime |-> datetime,
         exchange |-> "KRAKEN",
         symbol |-> symbol,
         marketType |-> "FUTURES",
         side |-> sideOf(type),
         qty |-> qty,
         price |-> price,
         realizedPnlUsd |-> pnlUsd,
         feesUsd |-> feeUsd,
         fundingUsd |-> fundingUsd,
         netPnlUsd |-> IF netUsd # 0 THEN netUsd ELSE netCalc,
         notes |-> Get(o, "txid"),
         tradeKey |-> join(<<"KRAKEN", Get(o, "txid"), symbol, time,
                             ToString(qty), ToString(price),
                             ToString(netUsd)>>, "|")]

normalizeKraken(objs) ==
    SelectSeq([i \in DOMAIN objs |-> krakenRow(objs[i])], HasDatetime)

\* `${o["txid"]}` of a row without the column
Interp(x) == IF x = "" THEN "undefined" ELSE x

\* normalizeKrakenTrades (app1), one row
krakenTradesRow(o) ==
    LET time == Get(o, "time")
        datetime == IF time # "" THEN toIsoFromUnixSeconds(time) ELSE NoDate
        symbol == Or(Get(o, "pair"), Get(o, "symbol"))
        type == Or(Get(o, "type"), Get(o, "side"))
        qty == parseNumber(Or3(Get(o, "vol"), Get(o, "qty"), Get(o, "volume")))
        price == parseNumber(Or(Get(o, "price"), Get(o, "avgPrice")))
        feeUsd == abs(parseNumber(Get(o, "fee")))
        netUsd == parseNumber(Get(o, "net"))
    IN  [datetime |-> datetime,
         exchange |-> "KRAKEN",
         symbol |-> symbol,
         marketType |-> "SPOT",
         side |-> sideOf(type),
         qty |-> qty,
         price |-> price,
         realizedPnlUsd |-> 0,
         feesUsd |-> feeUsd,
         fundingUsd |-> 0,
         netPnlUsd |-> netUsd,
         notes |-> Get(o, "txid"),
         tradeKey |-> join(<<"KRAKEN", Interp(Get(o, "txid")), DtStr(datetime),
                             symbol, ToString(qty), ToString(price),
                             ToString(netUsd)>>, "|")]

normalizeKrakenTrades(objs) ==
    SelectSeq([i \in DOMAIN objs |-> krakenTradesRow(objs[i])], HasDatetime)

UpperOf ==
    [a |-> "A", b |-> "B", c |-> "C", d |-> "D", e |-> "E", f |-> "F",
     g |-> "G", h |-> "H", i |-> "I", j |-> "J", k |-> "K", l |-> "L",
     m |-> "M", n |-> "N", o |-> "O", p |-> "P", q |-> "Q", r |-> "R",
     s |-> "S", t |-> "T", u |-> "U", v |-> "V", w |-> "W", x |-> "X",
     y |-> "Y", z |-> "Z"]

upperChar(c) == IF c \in DOMAIN UpperOf THEN UpperOf[c] ELSE c

RECURSIVE toUpperCase(_)
toUpperCase(s) ==
    IF s = "" THEN ""
    ELSE upperChar(SubSeq(s, 1, 1)) \o toUpperCase(SubSeq(s, 2, Len(s)))

\* dtStr.replace(" ","T"), then "Z" appended unless the text ends with it
\* (part_000, part_001): the text is never parsed
appendZ(c) ==
    IF c.f \in {"isoSpace", "isoT", "isoZ"} THEN IsoSec(c.t)
    ELSE RawText(c.f, c.t)

\* the DD/Mon/YYYY match of app1, with the clock as the fallback
matchOrNow(c, now) == IF c.f = "dMonY" THEN IsoMs(c.t) ELSE IsoMs(now)

LogTypes == {"futures trade", "funding rate change", "futures liquidation",
             "futures assignor"}

\* normalizeKrakenFuturesAccountLog (part_000, part_001), one row
krakenLogRowExact(o) ==
    LET uid == trim(Get(o, "uid"))
        dtCell == OrDate(GetDate(o, "dateTime"), GetDate(o, "datetime"))
        datetimeIso == appendZ(dtCell)
        typeRaw == trim(Get(o, "type"))
        type == toLowerCase(typeRaw)
        symbol == Or(trim(Get(o, "contract")), trim(Get(o, "symbol")))
        realizedPnlUsd == parseNumber(Or(Get(o, "realized pnl"), Get(o, "realized_pnl")))
        feeUsd == abs(parseNumber(Get(o, "fee")))
        realizedFundingUsd ==
            parseNumber(Or(Get(o, "realized funding"), Get(o, "realized_funding")))
        liquidationFeeUsd ==
            abs(parseNumber(Or(Get(o, "liquidation fee"), Get(o, "liquidation_fee"))))
        changeUsd == parseNumber(Get(o, "change"))
        fundingUsd == IF type = "funding rate change"
                      THEN (IF realizedFundingUsd # 0 THEN realizedFundingUsd
                            ELSE changeUsd)
                      ELSE 0
        pnlUsd == IF type = "funding rate change" THEN 0 ELSE realizedPnlUsd
        feesTotal == IF type = "funding rate change" THEN 0
                     ELSE feeUsd + liquidationFeeUsd
        netUsd == pnlUsd - feesTotal + fundingUsd
    IN  IF dtCell.f = "empty" THEN <<>>
        ELSE IF type \notin LogTypes THEN <<>>
        ELSE <<[datetime |-> datetimeIso,
                exchange |-> "KRAKEN",
                symbol |-> symbol,
                marketType |-> "FUTURES",
                side |-> toUpperCase(typeRaw),
                qty |-> 0,
                price |-> parseNumber(Or(Get(o, "trade price"), Get(o, "trade_price"))),
                realizedPnlUsd |-> pnlUsd,
                feesUsd |-> feesTotal,
                fundingUsd |-> fundingUsd,
                netPnlUsd |-> netUsd,
                notes |-> Or(Get(o, "position uid"), typeRaw),
                tradeKey |-> IF uid # "" THEN "KRAKENF_LOG|" \o uid
                             ELSE join(<<"KRAKENF_LOG", DtStr(datetimeIso), typeRaw,
                                         symbol, ToString(pnlUsd),
                                         ToString(feesTotal),
                                         ToString(fundingUsd)>>, "|")]>>

\* normalizeKrakenFuturesAccountLog (app1), one row
krakenLogRowLive(o, now) ==
    LET dtCell == OrDate(GetDate(o, "dateTime"), GetDate(o, "datetime"))
        datetimeIso == matchOrNow(dtCell, now)
        type == toLowerCase(Get(o, "type"))
        isTrade == contains(type, "futures trade")
        isFunding == contains(type, "funding rate change")
        symbol == trim(Or(Get(o, "contract"), Get(o, "symbol")))
        pnlUsd == IF isTrade THEN parseNumber(Get(o, "realized pnl")) ELSE 0
        feeUsd == IF isTrade THEN abs(parseNumber(Get(o, "fee"))) ELSE 0
        fundingUsd == IF isFunding
                      THEN parseNumber(Or(Get(o, "realized funding"), Get(o, "change")))
                      ELSE 0
        netUsd == pnlUsd - feeUsd + fundingUsd
    IN  IF dtCell.f = "empty" THEN <<>>
        ELSE <<[datetime |-> datetimeIso,
                exchange |-> "KRAKEN",
                symbol |-> symbol,
                marketType |-> "FUTURES",
                side |-> toUpperCase(Get(o, "type")),
                qty |-> 0,
                price |-> parseNumber(Get(o, "trade price")),
                realizedPnlUsd |-> pnlUsd,
                feesUsd |-> feeUsd,
                fundingUsd |-> fundingUsd,
                netPnlUsd |-> netUsd,
                notes |-> Get(o, "uid"),
                tradeKey |-> "KRAKENF|" \o
                             Or(Get(o, "uid"),
                                join(<<DtStr(datetimeIso), symbol,
                                       ToString(netUsd)>>, "|"))]>>

\* normalizeKrakenFuturesAccountLog (app3), one row
krakenLogRowLog(o, tz) ==
    LET uid == trim(Get(o, "uid"))
        typeRaw == trim(Get(o, "type"))
        dtIso == parseKrakenFuturesDateTime(
                     OrDate(GetDate(o, "dateTime"), GetDate(o, "datetime")), tz)
        realizedPnl == parseNumber(Get(o, "realized pnl"))
        fee == abs(parseNumber(Get(o, "fee")))
        realizedFunding == parseNumber(Get(o, "realized funding"))
        liqFee == abs(parseNumber(Get(o, "liquidation fee")))
        hasEffect == realizedPnl # 0 \/ fee # 0 \/ realizedFunding # 0 \/ liqFee # 0
        symbol == toUpperCase(trim(Or(Get(o, "contract"), Get(o, "symbol"))))
        net == realizedPnl - fee - liqFee + realizedFunding
    IN  IF dtIso.k = "none" THEN <<>>
        ELSE IF ~hasEffect THEN <<>>
        ELSE <<[datetime |-> dtIso,
                exchange |-> "KRAKEN",
                symbol |-> symbol,
                marketType |-> "FUTURES",
                side |-> toUpperCase(typeRaw),
                qty |-> 0,
                price |-> parseNumber(Get(o, "trade price")),
                realizedPnlUsd |-> realizedPnl,
                feesUsd |-> fee + liqFee,
                fundingUsd |-> realizedFunding,
                netPnlUsd |-> net,
                notes |-> Get(o, "position uid"),
                tradeKey |-> IF uid # "" THEN "KRAKENF|" \o uid
                             ELSE join(<<"KRAKENF", DtStr(dtIso), symbol, typeRaw,
                                         ToString(realizedPnl), ToString(fee),
                                         ToString(realizedFunding),
                                         ToString(liqFee)>>, "|")]>>

normalizeKrakenFuturesAccountLog(v, objs, now, tz) ==
    flatten([i \in DOMAIN objs |->
                CASE v = "app1" -> krakenLogRowLive(objs[i], now)
                  [] v = "app3" -> krakenLogRowLog(objs[i], tz)
                  [] OTHER -> krakenLogRowExact(objs[i])])

\* the normalizer the import runs for a detected type
normalizeCsv(v, type, objs, now, tz) ==
    CASE type = "BLOFIN_ORDER_HISTORY" -> normalizeBlofin(v, objs)
      [] type = "KRAKEN_TRADES" ->
            IF v = "app1" THEN normalizeKrakenTrades(objs) ELSE normalizeKraken(objs)
      [] type = "KRAKEN_FUTURES_ACCOUNT_LOG" ->
            normalizeKrakenFuturesAccountLog(v, objs, now, tz)
      [] OTHER -> <<>>

\* ------------------------------------------------------- input universes

NowVals == {8, 9}              \* readings of the clock, later than any record
RandVals == {"0.11", "0.47"}   \* texts of Math.random()
TzOffsets == {0, 1}

\* a row of the remote snapshot's `rows`
jsonRow(key, dt, net, fees) ==
    [datetime |-> dt, exchange |-> "KRAKEN", symbol |-> "PF_XBTUSD",
     marketType |-> "FUTURES", side |-> "BUY", qty |-> <<1>>, price |-> <<2>>,
     realizedPnlUsd |-> <<net + fees>>, feesUsd |-> <<fees>>, fundingUsd |-> <<>>,
     netPnlUsd |-> <<net>>, notes |-> "", tradeKey |-> key]

closedTrade ==
    [exit_dt |-> IsoSec(3), entry_dt |-> IsoSec(2), symbol |-> "PF_ETHUSD",
     direction |-> "LONG", qty |-> <<1>>, exit_price |-> <<3>>,
     entry_price |-> <<2>>, realized_pnl |-> <<4>>, fees |-> <<1>>,
     funding |-> <<>>, net_pnl |-> <<>>, entry_fill_id |-> "e1",
     exit_fill_id |-> "x1"]

rowsPayload(id, rows) ==
    [id |-> id, shape |-> "rows", rows |-> rows, closed_trades |-> <<>>]

\* the snapshots DATA_URL may serve
ApiPayloads ==
    {rowsPayload("api:keyed",
                 <<jsonRow("k1", IsoSec(1), 5, 1), jsonRow("k2", IsoSec(2), 0 - 3, 0)>>),
     rowsPayload("api:revised", <<jsonRow("k1", IsoSec(1), 7, 1)>>),
     rowsPayload("api:unkeyed", <<jsonRow("", IsoSec(1), 5, 1)>>),
     rowsPayload("api:twice",
                 <<jsonRow("k3", IsoSec(3), 2, 0), jsonRow("k3", IsoSec(3), 4, 0)>>),
     rowsPayload("api:undated", <<jsonRow("k4", NoDate, 1, 0)>>),
     rowsPayload("api:empty", <<>>),
     [id |-> "api:legacy", shape |-> "closed_trades", rows |-> <<>>,
      closed_trades |-> <<closedTrade>>]}

Cell(f, t) == [f |-> f, t |-> t]

BlofinHeaders ==
    <<"Underlying Asset", "Order Time", "Side", "Filled", "Avg Fill", "PNL",
      "Fee", "Status">>
KrakenHeaders ==
    <<"txid", "ordertype", "pair", "time", "type", "vol", "price", "fee", "pnl">>
LogHeaders ==
    <<"uid", "dateTime", "type", "contract", "change", "realized pnl", "fee",
      "realized funding", "liquidation fee">>

blofinObj(time, pnl, fee) ==
    [h \in Range(BlofinHeaders) |->
        CASE h = "Underlying Asset" -> "BTCUSDT"
          [] h = "Order Time" -> time
          [] h = "Side" -> "Sell"
          [] h = "Filled" -> "1"
          [] h = "Avg Fill" -> "3"
          [] h = "PNL" -> pnl
          [] h = "Fee" -> fee
          [] OTHER -> "Filled"]

krakenObj(txid, time, pnl, fee) ==
    [h \in Range(KrakenHeaders) |->
        CASE h = "txid" -> txid
          [] h = "ordertype" -> "market"
          [] h = "pair" -> "XBTUSD"
          [] h = "time" -> time
          [] h = "type" -> "buy"
          [] h = "vol" -> "1"
          [] h = "price" -> "2"
          [] h = "fee" -> fee
          [] OTHER -> pnl]

logObj(uid, time, type, pnl, fee, funding, liq) ==
    [h \in Range(LogHeaders) |->
        CASE h = "uid" -> uid
          [] h = "dateTime" -> time
          [] h = "type" -> type
          [] h = "contract" -> "pf_xbtusd"
          [] h = "change" -> "0"
          [] h = "realized pnl" -> pnl
          [] h = "fee" -> fee
          [] h = "realized funding" -> funding
          [] OTHER -> liq]

\* the files the user may pick: what rowsToObjects returns for each
CsvFiles ==
    {[id |-> "csv:blofin", headers |-> BlofinHeaders,
      objs |-> <<blofinObj(Cell("mdy", 1), "5", "-1"),
                 blofinObj(Cell("mdy", 2), "--", "0")>>],
     [id |-> "csv:kraken", headers |-> KrakenHeaders,
      objs |-> <<krakenObj("T1", "2", "10", "2")>>],
     [id |-> "csv:log", headers |-> LogHeaders,
      objs |-> <<logObj("u1", Cell("dMonY", 1), "futures trade", "6", "1", "", ""),
                 logObj("u2", Cell("text", 0), "futures trade", "3", "1", "", "")>>],
     [id |-> "csv:other",
      headers |-> <<"date", "amount", "currency", "iban", "memo", "payee",
                    "balance", "category", "tag">>,
      objs |-> << >>],
     [id |-> "csv:short", headers |-> <<"date", "amount">>, objs |-> << >>]}

\* ------------------------------------------- handlers run to completion

FileOf(id) == CHOOSE f \in CsvFiles : f.id = id

\* ------------------------------------------------------------ FX rate
\* A JSON value of the FX cache is a record [t, usdToEur, asOf, src]: t is
\* "obj" for an object, "prim" for a truthy number/string/true, "null" for
\* null and the falsy primitives; usdToEur is <<>> (no such property) or
\* <<n>>.  The text under FX_CACHE_KEY is such a value, or "absent"
\* (getItem answers null), or "garbage" (JSON.parse throws).  Rates are
\* numbers; the rate 0 is falsy as in the code.

RateVals == {0, 2, 3}
UsdVals == {-4, 0, 5}
Currencies == {"USD", "EUR"}

jsVal(t, rate, asOf, src) == [t |-> t, usdToEur |-> rate, asOf |-> asOf, src |-> src]

NoCache == jsVal("absent", <<>>, "", "")

\* const state = { fx: { usdToEur: null, asOf: null }, currency: "USD", ... }
state0 == [currency |-> "USD", fx |-> jsVal("obj", <<>>, "", "")]

CacheTexts ==
    {NoCache, jsVal("garbage", <<>>, "", ""), jsVal("null", <<>>, "", ""),
     jsVal("prim", <<>>, "", "")}
    \cup {jsVal("obj", r, a, "") : r \in {<<>>} \cup {<<n>> : n \in RateVals},
                                   a \in {"", "2024-01-01"}}

\* v.usdToEur for a value that is not null or undefined; a primitive has no
\* such property
usdToEurOf(v) == IF v.t = "obj" THEN v.usdToEur ELSE <<>>

\* does reading a property of v throw a TypeError?
throwsOnRead(v) == v.t \in {"null", "absent"}

\* the truthiness of a rate
truthy(r) == r # <<>> /\ r[1] # 0

\* the start of fetchFxRate: state.fx after the cached text has been read
loadCache(v, fx, cached) ==
    IF cached.t \in {"absent", "garbage"} THEN fx
    ELSE IF v \in {"app1", "app3"}
         THEN (IF cached.t = "null" THEN fx ELSE cached)
         ELSE (IF cached.t = "obj" /\ truthy(cached.usdToEur) /\ cached.asOf # ""
               THEN cached ELSE fx)

\* the providers a script asks, in order
providersOf(v) ==
    IF v = "part_000" THEN <<"exchangerate.host", "open.er-api.com">>
    ELSE <<"exchangerate.host">>

\* what the providers answer: <<>> for a network error, a timeout, a
\* non-OK status or an answer without rate, <<n>> for the rate n
Answers == {<<>>} \cup {<<n>> : n \in RateVals}

succeeded(answers, i) == truthy(answers[i])

\* the first provider that succeeds, 0 when none does
firstOk(v, answers) ==
    LET ok == {i \in DOMAIN providersOf(v) : succeeded(answers, i)}
    IN  IF ok = {} THEN 0 ELSE CHOOSE i \in ok : \A k \in ok : i <= k

fxBadgeText(fx) ==
    IF truthy(usdToEurOf(fx))
    THEN "FX: 1 USD = " \o ToString(usdToEurOf(fx)[1]) \o " EUR"
    ELSE "FX: offline"

\* a fetch that forgets the rate it had when every provider fails
fetchFxRateForgetful(v, fx, cached, answers, date) ==
    LET i == firstOk(v, answers)
        fresh == jsVal("obj", answers[i], date,
                       IF v = "part_000" THEN providersOf(v)[i] ELSE "")
    IN  IF i = 0
        THEN [fx |-> state0.fx, cache |-> NoCache, threw |-> FALSE,
              badge |-> "FX: offline"]
        ELSE [fx |-> fresh, cache |-> fresh, threw |-> FALSE,
              badge |-> fxBadgeText(fresh)]

\* fetchFxRate: state.fx, the stored text and the badge when it returns
fetchFxRate(v, fx, cached, answers, date) ==
    LET loaded == loadCache(v, fx, cached)
        i == firstOk(v, answers)
        fresh == jsVal("obj", answers[i], date,
                       IF v = "part_000" THEN providersOf(v)[i] ELSE "")
        after == IF i = 0 THEN loaded ELSE fresh
    IN  [fx |-> after,
         cache |-> IF i = 0 THEN cached ELSE fresh,
         threw |-> throwsOnRead(after),
         badge |-> fxBadgeText(after)]

\* a conversion that applies the rate whatever the currency is
convertAlways(st, usd) ==
    LET r == usdToEurOf(st.fx)
    IN  [threw |-> FALSE, value |-> IF truthy(r) THEN usd * r[1] ELSE usd]

\* convertUsdToSelected(usd)
convertUsdToSelected(st, usd) ==
    IF st.currency = "USD" THEN [threw |-> FALSE, value |-> usd]
    ELSE IF throwsOnRead(st.fx) THEN [threw |-> TRUE, value |-> 0]
    ELSE LET r == usdToEurOf(st.fx)
         IN  [threw |-> FALSE, value |-> IF ~truthy(r) THEN usd ELSE usd * r[1]]


\* a canonical entry as the object sanitizeRow receives from a normalizer
asJson(e) ==
    [e EXCEPT !.qty = <<e.qty>>, !.price = <<e.price>>,
              !.realizedPnlUsd = <<e.realizedPnlUsd>>, !.feesUsd = <<e.feesUsd>>,
              !.fundingUsd = <<e.fundingUsd>>, !.netPnlUsd = <<e.netPnlUsd>>]

rndAt(rnds, i) == rnds[((i - 1) % MaxDraws) + 1]

\* the readings of the clock a handler may take while it ingests.  Only the
\* first script of app.js reads it: sanitizeRow for a row without datetime,
\* the account-log normalizer for a dateTime its pattern does not match.
syncReadsClock(v, data) ==
    v = "app1" /\ \E i \in DOMAIN data.rows : data.rows[i].datetime.k = "none"

importReadsClock(v, type, objs) ==
    /\ v = "app1"
    /\ type = "KRAKEN_FUTURES_ACCOUNT_LOG"
    /\ \E i \in DOMAIN objs :
           OrDate(GetDate(objs[i], "dateTime"), GetDate(objs[i], "datetime")).f
               \notin {"empty", "dMonY"}

Clock(reads) == IF reads THEN NowVals ELSE {0}

\* the Math.random() texts a handler may draw: sanitizeRow draws one for
\* each row that comes without a tradeKey, no other code draws any
Draws(v, rows) ==
    IF v = "app1" /\ \E i \in DOMAIN rows : rows[i].tradeKey = ""
    THEN [1..MaxDraws -> RandVals]
    ELSE {[i \in 1..MaxDraws |-> ""]}

\* does the sync hand the snapshot to upsertTrades?
syncCalls(v, data) ==
    CASE v = "app1" -> data.shape = "rows" /\ data.rows # <<>>
      [] v = "app3" -> data.shape = "rows" /\ data.rows # <<>>
      [] OTHER -> TRUE

\* the rows the sync hands to upsertTrades
syncRows(v, data, now, rnds) ==
    CASE v = "app1" ->
            [i \in DOMAIN data.rows |-> sanitizeRow(data.rows[i], now, rndAt(rnds, i))]
      [] v = "app3" -> [i \in DOMAIN data.rows |-> rawRow(data.rows[i])]
      [] OTHER -> normalizeApiRows(data)

\* the rows the import hands to upsertTrades
importRows(v, type, objs, now, rnds, off) ==
    LET normalized == normalizeCsv(v, type, objs, now, off)
    IN  IF v = "app1"
        THEN [i \in DOMAIN normalized |->
                 sanitizeRow(asJson(normalized[i]), now, rndAt(rnds, i))]
        ELSE normalized

normalizerFor(v, type) ==
    CASE type = "BLOFIN_ORDER_HISTORY" -> "normalizeBlofin"
      [] type = "KRAKEN_TRADES" ->
            IF v = "app1" THEN "normalizeKrakenTrades" ELSE "normalizeKraken"
      [] type = "KRAKEN_FUTURES_ACCOUNT_LOG" -> "normalizeKrakenFuturesAccountLog"
      [] OTHER -> ""

\* a status line that names no header
unknownMsgBare(v, headers) == "Onbekend CSV formaat"

\* the status line for an unrecognised file (the ellipsis is written "...")
unknownMsg(v, headers) ==
    CASE v = "app1" ->
            "Error: Onbekend CSV formaat (" \o join(slice0(headers, 6), ", ") \o "...)"
      [] v = "app3" ->
            "Error: Onbekend CSV formaat. Headers: "
                \o join(slice0(headers, 8), ", ") \o "..."
      [] OTHER -> "Onbekend CSV formaat (" \o join(slice0(headers, 5), ", ") \o "...)"

\* how many of the headers that status line holds
namedHeaders(v) == CASE v = "app1" -> 6 [] v = "app3" -> 8 [] OTHER -> 5

okMsg(type, res) ==
    "OK: " \o type \o " +" \o ToString(res.added) \o " "
        \o ToString(res.skipped) \o " overgeslagen"

syncMsg(v, n, res) ==
    IF v = "app1" THEN "Sync OK (+" \o ToString(n) \o ")"
    ELSE IF v = "app3" THEN "Sync OK (+" \o ToString(res.added) \o ")"
    ELSE "Sync OK (+" \o ToString(res.added) \o ") totaal "
             \o ToString(Len(res.table))

\* how the fetch of the snapshot may fail: fetch rejects, the answer is
\* not res.ok, res.json() rejects
FetchFailures == {"api:network", "api:status", "api:json"}

\* a badge that reports the failed sync as a success
okBadge(v) == "Sync OK (+0)"

\* the badge the catch block writes
offlineBadge(v) ==
    CASE v = "app1" -> "Sync: offline/failed"
      [] v = "app3" -> "Sync: offline"
      [] OTHER -> "Sync offline"

\* a failure of the fetch is raised inside the try block: the catch writes
\* the badge and the function returns
syncFailed(v, kind) == [msg |-> offlineBadge(v), threw |-> FALSE]

Idle ==
    [op |-> "init", src |-> "", again |-> FALSE, ok |-> TRUE, type |-> "",
     ran |-> "", msg |-> "", upsert |-> FALSE, batch |-> <<>>, added |-> 0, skipped |-> 0,
     threw |-> FALSE]

\* was the handler that ran last the same handler on the same source?
Again(op, src) == last.op = op /\ last.src = src

NoUpsert(table) == [table |-> table, added |-> 0, skipped |-> 0]

Init ==
    /\ state = state0
    /\ localStorage = NoCache
    /\ variant \in Variants
    /\ hostTz \in (IF variant = "app3" THEN TzOffsets ELSE {0})
    /\ trades = <<>>
    /\ last = Idle
    /\ tasks = <<>>
    /\ timer = FALSE

\* fetchLiveJson / syncFromApiIntoDb / syncFromJson with the snapshot `data`
Sync ==
    \E data \in ApiPayloads :
      \E now \in Clock(syncReadsClock(variant, data)), rnds \in Draws(variant, data.rows) :
        LET called == syncCalls(variant, data)
            rows == IF called THEN syncRows(variant, data, now, rnds) ELSE <<>>
            res == IF called THEN upsertTrades(variant, trades, rows)
                   ELSE NoUpsert(trades)
        IN  /\ Len(res.table) <= MaxStore
            /\ trades' = res.table
            /\ last' = [op |-> "sync", src |-> data.id,
                        again |-> Again("sync", data.id), ok |-> TRUE, type |-> "",
                        ran |-> "",
                        msg |-> syncMsg(variant, Len(data.rows), res),
                        upsert |-> called,
                        batch |-> upsertInput(variant, rows),
                        added |-> res.added, skipped |-> res.skipped,
                        threw |-> FALSE]
            /\ UNCHANGED <<state, localStorage, variant, hostTz, tasks, timer>>

\* the same with a fetch that fails: the failure is raised inside the try
\* block and the catch writes the badge and returns { ok: false }
SyncFail ==
    \E kind \in FetchFailures :
        LET r == syncFailed(variant, kind)
        IN  /\ last' = [Idle EXCEPT !.op = "sync", !.src = kind,
                                    !.again = Again("sync", kind), !.ok = FALSE,
                                    !.msg = r.msg, !.threw = r.threw]
            /\ UNCHANGED <<state, localStorage, variant, hostTz, trades, tasks, timer>>

\* importBtn click with `file` chosen (every row a normalizer returns has a
\* tradeKey, so sanitizeRow draws no Math.random() here)
ImportCsv ==
    \E file \in CsvFiles :
      LET type == detectCsvType(variant, file.headers)
      IN  \E now \in Clock(importReadsClock(variant, type, file.objs)),
             rnds \in Draws(variant, <<>>) :
        LET rows == importRows(variant, type, file.objs, now, rnds, hostTz)
            res == upsertTrades(variant, trades, rows)
        IN  IF type = "UNKNOWN"
            THEN /\ last' = [Idle EXCEPT !.op = "import", !.src = file.id,
                                         !.again = Again("import", file.id),
                                         !.ok = FALSE, !.type = type,
                                         !.msg = unknownMsg(variant, file.headers)]
                 /\ UNCHANGED <<state, localStorage, variant, hostTz, trades, tasks, timer>>
            ELSE /\ Len(res.table) <= MaxStore
                 /\ trades' = res.table
                 /\ last' = [op |-> "import", src |-> file.id,
                             again |-> Again("import", file.id), ok |-> TRUE,
                             type |-> type, ran |-> normalizerFor(variant, type),
                             msg |-> okMsg(type, res), upsert |-> TRUE,
                             batch |-> upsertInput(variant, rows),
                             added |-> res.added, skipped |-> res.skipped,
                             threw |-> FALSE]
                 /\ UNCHANGED <<state, localStorage, variant, hostTz, tasks, timer>>

\* resetBtn click, confirmed
Reset ==
    /\ trades' = <<>>
    /\ last' = [Idle EXCEPT !.op = "reset"]
    /\ UNCHANGED <<state, localStorage, variant, hostTz, tasks, timer>>

Next == Sync \/ SyncFail \/ ImportCsv \/ Reset

Spec == Init /\ [][Next]_vars

\* --------------------------------------------- detectCsvType on its own

BlofinNames == {"Underlying Asset", "Order Time", "PNL", "Fee"}
KrakenNames == {"txid", "ordertype", "pair", "time"}
LogNames == {"uid", "dateTime", "type", "change", "contract", "symbol",
             "realized pnl", "fee", "realized funding"}

HeaderUniverse ==
    <<"uid", "dateTime", "type", "symbol", "contract", "change", "realized pnl",
      "fee", "realized funding", "txid", "ordertype", "pair", "time",
      "Underlying Asset", "Order Time", "PNL", "Fee">>

\* the subsets of a format's names that lack at most MaxMissing, or all
Lacking(names) ==
    {S \in SUBSET names : Cardinality(names \ S) <= MaxMissing} \cup {{}}

headersOf(S) == LET in(h) == h \in S IN SelectSeq(HeaderUniverse, in)

HeaderLists ==
    {headersOf(a \cup b \cup c) :
        a \in Lacking(BlofinNames), b \in Lacking(KrakenNames), c \in Lacking(LogNames)}

InitDetect ==
    /\ state = state0
    /\ localStorage = NoCache
    /\ variant \in Variants
    /\ hostTz = 0
    /\ trades = <<>>
    /\ tasks = <<>>
    /\ timer = FALSE
    /\ \E hs \in HeaderLists : last = [op |-> "headers", headers |-> hs, type |-> ""]

Detect ==
    /\ last.op = "headers"
    /\ last' = [last EXCEPT !.op = "detect",
                            !.type = detectCsvType(variant, last.headers)]
    /\ UNCHANGED <<state, localStorage, variant, hostTz, trades, tasks, timer>>

NextDetect == Detect

SpecDetect == InitDetect /\ [][NextDetect]_vars

\* ---------------------------------------------- normalizers on their own

Opt(cells) == cells \cup {""}

KrakenRows ==
    {[txid |-> "T1", pair |-> "XBTUSD", time |-> time, type |-> "sell",
      vol |-> "1", price |-> "2", fee |-> fee, net |-> net, pnl |-> pnl,
      funding |-> funding] :
        time \in Opt({"2"}), fee \in Opt({"2", "-2"}), net \in Opt({"9"}),
        pnl \in Opt({"10"}), funding \in Opt({"1"})}

BlofinRows ==
    {blofinObj(time, pnl, fee) :
        time \in {Cell("mdy", 1), Cell("text", 0), EmptyCell},
        pnl \in Opt({"5", "-4", "--"}), fee \in Opt({"1", "-1"})}

LogRows ==
    {logObj(uid, time, type, pnl, fee, funding, liq) :
        uid \in Opt({"u1"}),
        time \in {Cell("dMonY", 1), Cell("isoSpace", 1), Cell("isoZ", 2),
                  Cell("text", 0), EmptyCell},
        type \in {"futures trade", "funding rate change", "futures liquidation",
                  "transfer"},
        pnl \in Opt({"6"}), fee \in Opt({"-1"}), funding \in Opt({"2"}),
        liq \in Opt({"3"})}

RowsOf(type) ==
    CASE type = "BLOFIN_ORDER_HISTORY" -> BlofinRows
      [] type = "KRAKEN_TRADES" -> KrakenRows
      [] OTHER -> LogRows

\* the formats a script has a normalizer for
TypesOf(v) ==
    IF v = "app3" THEN {"KRAKEN_FUTURES_ACCOUNT_LOG"} ELSE CsvTypes \ {"UNKNOWN"}

InitNorm ==
    /\ state = state0
    /\ localStorage = NoCache
    /\ variant \in Variants
    /\ hostTz \in (IF variant = "app3" THEN TzOffsets ELSE {0})
    /\ trades = <<>>
    /\ tasks = <<>>
    /\ timer = FALSE
    /\ \E type \in TypesOf(variant) : \E o \in RowsOf(type) :
           last = [op |-> "row", type |-> type, objs |-> <<o>>, out |-> <<>>]

Normalize ==
    /\ last.op = "row"
    /\ \E now \in Clock(importReadsClock(variant, last.type, last.objs)) :
           last' = [last EXCEPT !.op = "normalize",
                        !.out = normalizeCsv(variant, last.type, last.objs, now, hostTz)]
    /\ UNCHANGED <<state, localStorage, variant, hostTz, trades, tasks, timer>>

NextNorm == Normalize

SpecNorm == InitNorm /\ [][NextNorm]_vars

\* ------------------------------------------- handlers step by step
\* Each handler in flight is a task standing at one of its awaits:
\*   "fetch"    fetch(DATA_URL) and res.json()
\*   "text"     file.text()
\*   "existing" upsertTrades: db.trades.toArray() issued
\*   "bulk"     upsertTrades: bulkAdd / bulkPut issued
\*   "count"    db.trades.count() issued
\*   "render"   renderAll: db.trades.toArray() issued
\*   "render2"  renderAll (app3): getFilteredTrades' own toArray() issued
\*   "clear"    db.trades.clear() issued
\* Transactions on one table take effect in the order they are issued, so
\* a request reads or writes the table in the step that issues it; the
\* await resumes in a later step.

Task(kind, pc, src) ==
    [kind |-> kind, pc |-> pc, src |-> src, rows |-> <<>>, keySet |-> {},
     waited |-> 0]

Cycles == {"init", "tick"}
UpsertPcs == {"existing", "bulk"}

AsyncPayloads == {d \in ApiPayloads : d.id \in {"api:keyed", "api:empty"}}
AsyncFiles == {f \in CsvFiles : f.id \in {"csv:kraken", "csv:other"}}

Event(op, by) == [op |-> op, by |-> by, seen |-> <<>>]

RemoveAt(s, i) == SubSeq(s, 1, i - 1) \o SubSeq(s, i + 1, Len(s))

\* where a handler stands once its upsertTrades has returned
afterUpsert(v, kind) ==
    IF kind \in Cycles /\ v \in {"part_000", "part_001"} THEN "count" ELSE "render"

\* the event of arriving at pc
arrive(pc, kind, table) ==
    IF pc \in {"render", "render2"}
    THEN [op |-> "read", by |-> kind, seen |-> table]
    ELSE Event(pc, kind)

\* upsertTrades(rows) up to its first await, or its return without one
enterUpsert(v, t, rows, table) ==
    LET ret == afterUpsert(v, t.kind)
        valid == upsertSelect(v, rows, {})
    IN  IF v = "part_000" /\ valid # <<>>
        THEN [task |-> [t EXCEPT !.pc = "bulk", !.rows = valid],
              table |-> bulkPut(table, valid),
              ev |-> Event("write", t.kind)]
        ELSE IF v = "part_000" \/ (v = "app3" /\ rows = <<>>)
        THEN [task |-> [t EXCEPT !.pc = ret], table |-> table,
              ev |-> arrive(ret, t.kind, table)]
        ELSE [task |-> [t EXCEPT !.pc = "existing", !.rows = rows,
                                 !.keySet = Keys(table)],
              table |-> table,
              ev |-> Event("keys", t.kind)]

InitAsync ==
    /\ state = state0
    /\ localStorage = NoCache
    /\ variant \in Variants
    /\ hostTz = 0
    /\ trades = <<>>
    /\ tasks = <<Task("init", "fetch", "")>>
    /\ timer = FALSE
    /\ last = Event("boot", "init")

\* the setInterval callback fires: REFRESH_MS have passed for every cycle
\* a tick began and that is still in flight
Tick ==
    /\ timer
    /\ Len(tasks) < MaxTasks
    /\ tasks' = Append([i \in DOMAIN tasks |->
                           IF tasks[i].kind = "tick"
                           THEN [tasks[i] EXCEPT !.waited = REFRESH_MS]
                           ELSE tasks[i]],
                       Task("tick", "fetch", ""))
    /\ last' = Event("tick", "tick")
    /\ UNCHANGED <<state, localStorage, variant, hostTz, trades, timer>>

\* the snapshot arrives: the sync goes on into upsertTrades
FetchDone(i) ==
    /\ tasks[i].pc = "fetch"
    /\ \E data \in AsyncPayloads :
        \E now \in Clock(syncReadsClock(variant, data)),
           rnds \in Draws(variant, data.rows) :
           LET t == [tasks[i] EXCEPT !.src = data.id]
               r == IF syncCalls(variant, data)
                    THEN enterUpsert(variant, t, syncRows(variant, data, now, rnds),
                                     trades)
                    ELSE [task |-> [t EXCEPT !.pc = "render"], table |-> trades,
                          ev |-> arrive("render", t.kind, trades)]
           IN  /\ Len(r.table) <= MaxStore
               /\ tasks' = [tasks EXCEPT ![i] = r.task]
               /\ trades' = r.table
               /\ last' = r.ev
    /\ UNCHANGED <<state, localStorage, variant, hostTz, timer>>

\* the fetch rejects: the catch sets the badge and renderAll follows
FetchFail(i) ==
    /\ tasks[i].pc = "fetch"
    /\ tasks' = [tasks EXCEPT ![i] = [@ EXCEPT !.pc = "render", !.src = "api:down"]]
    /\ last' = arrive("render", tasks[i].kind, trades)
    /\ UNCHANGED <<state, localStorage, variant, hostTz, trades, timer>>

\* toArray() of upsertTrades resolves: the new rows are selected and written
Existing(i) ==
    /\ tasks[i].pc = "existing"
    /\ LET t == tasks[i]
           toAdd == upsertSelect(variant, t.rows, t.keySet)
           ret == afterUpsert(variant, t.kind)
       IN  IF toAdd = <<>>
           THEN /\ tasks' = [tasks EXCEPT ![i] = [t EXCEPT !.pc = ret, !.rows = <<>>]]
                /\ last' = arrive(ret, t.kind, trades)
                /\ UNCHANGED trades
           ELSE /\ Len(trades) + Len(toAdd) <= MaxStore
                /\ trades' = bulkAdd(trades, toAdd)
                /\ tasks' = [tasks EXCEPT ![i] = [t EXCEPT !.pc = "bulk",
                                                            !.rows = toAdd]]
                /\ last' = Event("write", t.kind)
    /\ UNCHANGED <<state, localStorage, variant, hostTz, timer>>

\* an await other than the first resolves and the handler runs on to its
\* next await
Resume(i) ==
    /\ tasks[i].pc \in {"bulk", "count", "clear"}
    /\ LET t == tasks[i]
           pc == IF t.pc = "bulk" THEN afterUpsert(variant, t.kind) ELSE "render"
       IN  /\ tasks' = [tasks EXCEPT ![i] = [t EXCEPT !.pc = pc, !.rows = <<>>]]
           /\ last' = arrive(pc, t.kind, trades)
    /\ UNCHANGED <<state, localStorage, variant, hostTz, trades, timer>>

\* renderAll's read resolves; the handler ends (init then starts the timer)
Rendered(i) ==
    /\ tasks[i].pc \in {"render", "render2"}
    /\ IF variant = "app3" /\ tasks[i].pc = "render"
       THEN /\ tasks' = [tasks EXCEPT ![i] = [@ EXCEPT !.pc = "render2"]]
            /\ last' = arrive("render2", tasks[i].kind, trades)
            /\ UNCHANGED timer
       ELSE /\ tasks' = RemoveAt(tasks, i)
            /\ last' = Event("done", tasks[i].kind)
            /\ timer' = (timer \/ tasks[i].kind = "init")
    /\ UNCHANGED <<state, localStorage, variant, hostTz, trades>>

\* importBtn click: the handler awaits file.text()
ImportClick ==
    /\ Len(tasks) < MaxTasks
    /\ \E file \in AsyncFiles : tasks' = Append(tasks, Task("import", "text", file.id))
    /\ last' = Event("click", "import")
    /\ UNCHANGED <<state, localStorage, variant, hostTz, trades, timer>>

\* file.text() resolves: parse, detect, normalize, then upsertTrades
TextRead(i) ==
    /\ tasks[i].pc = "text"
    /\ \E now \in Clock(importReadsClock(variant,
                               detectCsvType(variant, FileOf(tasks[i].src).headers),
                               FileOf(tasks[i].src).objs)),
          rnds \in Draws(variant, <<>>) :
           LET t == tasks[i]
               file == FileOf(t.src)
               type == detectCsvType(variant, file.headers)
               r == IF type # "UNKNOWN"
                    THEN enterUpsert(variant, t,
                             importRows(variant, type, file.objs, now, rnds, hostTz),
                             trades)
                    ELSE [task |-> [t EXCEPT !.pc = "render"], table |-> trades,
                          ev |-> arrive("render", t.kind, trades)]
           IN  IF type = "UNKNOWN" /\ variant \in {"part_000", "part_001"}
               THEN /\ tasks' = RemoveAt(tasks, i)
                    /\ last' = Event("done", t.kind)
                    /\ UNCHANGED trades
               ELSE /\ Len(r.table) <= MaxStore
                    /\ tasks' = [tasks EXCEPT ![i] = r.task]
                    /\ trades' = r.table
                    /\ last' = r.ev
    /\ UNCHANGED <<state, localStorage, variant, hostTz, timer>>

\* a filter control changes: the handler calls renderAll at once
FilterChange ==
    /\ Len(tasks) < MaxTasks
    /\ tasks' = Append(tasks, Task("filter", "render", ""))
    /\ last' = arrive("render", "filter", trades)
    /\ UNCHANGED <<state, localStorage, variant, hostTz, trades, timer>>

\* resetBtn click, confirmed: clear() is issued
ResetClick ==
    /\ Len(tasks) < MaxTasks
    /\ trades' = <<>>
    /\ tasks' = Append(tasks, Task("reset", "clear", ""))
    /\ last' = Event("clear", "reset")
    /\ UNCHANGED <<state, localStorage, variant, hostTz, timer>>

NextAsync ==
    \/ Tick
    \/ ImportClick
    \/ FilterChange
    \/ ResetClick
    \/ \E i \in DOMAIN tasks : FetchDone(i)
    \/ \E i \in DOMAIN tasks : FetchFail(i)
    \/ \E i \in DOMAIN tasks : Existing(i)
    \/ \E i \in DOMAIN tasks : Resume(i)
    \/ \E i \in DOMAIN tasks : Rendered(i)
    \/ \E i \in DOMAIN tasks : TextRead(i)

SpecAsync == InitAsync /\ [][NextAsync]_vars

\* ------------------------------------------------ the FX rate and its cache
\* The cache text a session starts with is whatever an earlier session
\* left, or is damaged; state.fx starts without rate.

FxDates == {"2024-01-02"}

NoFx == [op |-> "init", ok |-> TRUE, answers |-> <<>>, threw |-> FALSE,
         badge |-> "", before |-> [fx |-> state0.fx, cache |-> NoCache],
         usd |-> 0, out |-> 0]

InitFx ==
    /\ variant \in Variants
    /\ hostTz = 0
    /\ trades = <<>>
    /\ tasks = <<>>
    /\ timer = FALSE
    /\ state = state0
    /\ localStorage \in CacheTexts
    /\ last = NoFx

\* fetchFxRate, from init or from the refresh timer
FetchFx ==
    \E answers \in [1..2 -> Answers], date \in FxDates :
        LET r == fetchFxRate(variant, state.fx, localStorage, answers, date)
        IN  /\ state' = [state EXCEPT !.fx = r.fx]
            /\ localStorage' = r.cache
            /\ last' = [NoFx EXCEPT !.op = "fetchFx",
                                    !.ok = firstOk(variant, answers) # 0,
                                    !.answers = answers, !.threw = r.threw,
                                    !.badge = r.badge,
                                    !.before = [fx |-> state.fx, cache |-> localStorage]]
            /\ UNCHANGED <<variant, hostTz, trades, tasks, timer>>

\* the currency select changes
CurrencyChange ==
    \E c \in Currencies :
        /\ state' = [state EXCEPT !.currency = c]
        /\ last' = [NoFx EXCEPT !.op = "currency"]
        /\ UNCHANGED <<localStorage, variant, hostTz, trades, tasks, timer>>

\* a render converts the amount usd
Convert ==
    \E usd \in UsdVals :
        LET r == convertUsdToSelected(state, usd)
        IN  /\ last' = [NoFx EXCEPT !.op = "convert", !.usd = usd,
                                    !.threw = r.threw, !.out = r.value]
            /\ UNCHANGED <<state, localStorage, variant, hostTz, trades, tasks, timer>>

NextFx == FetchFx \/ CurrencyChange \/ Convert

SpecFx == InitFx /\ [][NextFx]_vars

\* ------------------------------------------------------------ aggregation
\* Entries as the aggregation functions read them: datetime is a date
\* string, the amounts are <<>> (absent, null) or <<n>>.  In this part an
\* instant t counts DayLen units a UTC day and a month has MonthLen days,
\* so that day and month boundaries lie within small numbers.

DayLen == 2
MonthLen == 2
MonthsBack == 12
MaxList == 2

utcDayOf(t) == t \div DayLen
utcMonthOf(t) == utcDayOf(t) \div MonthLen

\* t.netPnlUsd || 0
amountOr0(x) == IF x = <<>> THEN 0 ELSE x[1]

\* a > b for two date strings: the ISO texts have a fixed width, so they
\* compare as their instants do, and at the same second "...SS.000Z" is
\* below "...SSZ"; "" is below every text
gtText(a, b) ==
    LET rank(d) == CASE d.k = "none" -> 0 [] d.k = "raw" -> 1
                     [] d.k = "isoMs" -> 2 [] OTHER -> 3
    IN  IF a.k = "none" \/ b.k = "none" THEN rank(a) > rank(b)
        ELSE IF a.t # b.t THEN a.t > b.t
        ELSE rank(a) > rank(b)

\* new Date(text): <<t>>, or <<>> for an Invalid Date
parseDate(d) == IF d.k \in {"isoMs", "isoSec"} THEN <<d.t>> ELSE <<>>

\* String(text || "").slice(0, 10): the UTC day an ISO text starts with,
\* <<>> for a text that starts with no date
sliceDay(d) == IF d.k \in {"isoMs", "isoSec"} THEN <<utcDayOf(d.t)>> ELSE <<>>

\* the year-month key of new Date(text): <<>> stands for "NaN-NaN"
monthKeyOf(d) ==
    IF parseDate(d) = <<>> THEN <<>> ELSE <<utcMonthOf(parseDate(d)[1])>>

RECURSIVE sumOf(_, _)
sumOf(items, field) ==
    IF items = <<>> THEN 0
    ELSE amountOr0(Head(items)[field]) + sumOf(Tail(items), field)

\* wins counted with netPnl >= 0
aggregateKPIsLax(items) ==
    LET count == Len(items)
        wins == Cardinality({i \in DOMAIN items : amountOr0(items[i].netPnlUsd) >= 0})
    IN  [net |-> sumOf(items, "netPnlUsd"), fees |-> sumOf(items, "feesUsd"),
         wins |-> wins, count |-> count,
         winrate |-> IF count # 0 THEN [n |-> wins, d |-> count] ELSE [n |-> 0, d |-> 1]]

\* aggregateKPIs(trades); winrate is the fraction n/d
aggregateKPIs(items) ==
    LET count == Len(items)
        wins == Cardinality({i \in DOMAIN items : amountOr0(items[i].netPnlUsd) > 0})
    IN  [net |-> sumOf(items, "netPnlUsd"), fees |-> sumOf(items, "feesUsd"),
         wins |-> wins, count |-> count,
         winrate |-> IF count # 0 THEN [n |-> wins, d |-> count] ELSE [n |-> 0, d |-> 1]]

\* a series whose points hold each entry's own net
buildEquitySeriesFlat(tradesAsc) ==
    [i \in DOMAIN tradesAsc |->
        [x |-> tradesAsc[i].datetime, y |-> amountOr0(tradesAsc[i].netPnlUsd)]]

\* buildEquitySeries(tradesAsc)
buildEquitySeries(tradesAsc) ==
    [i \in DOMAIN tradesAsc |->
        [x |-> tradesAsc[i].datetime,
         y |-> sumOf(SubSeq(tradesAsc, 1, i), "netPnlUsd")]]

\* a bucket that takes every entry
dailyNetAny(items, key) == sumOf(items, "netPnlUsd")

\* the net a day's bucket ends with
dailyNet(items, key) ==
    sumOf(SelectSeq(items, LAMBDA t : sliceDay(t.datetime) = <<key>>), "netPnlUsd")

\* dailyBuckets(trades, nowRef, daysBack)
dailyBuckets(items, now, daysBack) ==
    LET base == utcDayOf(now)
    IN  [i \in 1..daysBack |->
            LET key == base - (daysBack - i)
            IN  [key |-> key, net |-> dailyNet(items, key)]]

\* monthlyBuckets(trades, nowRef); the first script of app.js sums net only
monthlyBuckets(v, items, now) ==
    LET start == utcMonthOf(now)
    IN  [i \in 1..MonthsBack |->
            LET key == start - (MonthsBack - i)
                mine == SelectSeq(items, LAMBDA t : monthKeyOf(t.datetime) = <<key>>)
            IN  [key |-> key, net |-> sumOf(mine, "netPnlUsd"),
                 fees |-> IF v = "app1" THEN 0 ELSE sumOf(mine, "feesUsd")]]

AggTimes == {1, 5, 46, 52}
AggDates == {IsoMs(t) : t \in AggTimes} \cup {IsoSec(51), NoDate}
AggNets == {<<>>, <<-4>>, <<0>>, <<10>>}
AggEntries == {[datetime |-> d, netPnlUsd |-> n, feesUsd |-> <<1>>] :
                  d \in AggDates, n \in AggNets}
AggLists == UNION {[1..n -> AggEntries] : n \in 0..MaxList}
AggNows == {50, 51}
DaysBacks == {1, 3}

NoAgg == [op |-> "list", input |-> <<>>, now |-> 0, daysBack |-> 0,
          pts |-> <<>>, kpis |-> aggregateKPIs(<<>>), buckets |-> <<>>]

InitAgg ==
    /\ variant \in Variants
    /\ hostTz = 0
    /\ trades = <<>>
    /\ tasks = <<>>
    /\ timer = FALSE
    /\ state = state0
    /\ localStorage = NoCache
    /\ \E list \in AggLists : last = [NoAgg EXCEPT !.input = list]

Equity ==
    /\ last.op = "list"
    /\ last' = [last EXCEPT !.op = "equity", !.pts = buildEquitySeries(last.input)]
    /\ UNCHANGED <<state, localStorage, variant, hostTz, trades, tasks, timer>>

Kpis ==
    /\ last.op = "list"
    /\ last' = [last EXCEPT !.op = "kpis", !.kpis = aggregateKPIs(last.input)]
    /\ UNCHANGED <<state, localStorage, variant, hostTz, trades, tasks, timer>>

Daily ==
    /\ last.op = "list"
    /\ variant \in {"part_000", "part_001"}
    /\ \E now \in AggNows, n \in DaysBacks :
           last' = [last EXCEPT !.op = "daily", !.now = now, !.daysBack = n,
                                !.buckets = dailyBuckets(last.input, now, n)]
    /\ UNCHANGED <<state, localStorage, variant, hostTz, trades, tasks, timer>>

Monthly ==
    /\ last.op = "list"
    /\ \E now \in AggNows :
           last' = [last EXCEPT !.op = "monthly", !.now = now,
                                !.buckets = monthlyBuckets(variant, last.input, now)]
    /\ UNCHANGED <<state, localStorage, variant, hostTz, trades, tasks, timer>>

NextAgg == Equity \/ Kpis \/ Daily \/ Monthly

SpecAgg == InitAgg /\ [][NextAgg]_vars

\* --------------------------------------------------- renderAll's reading
\* The filters stand at their defaults (exchange and marketType "ALL", no
\* search text, the range the script starts with).

\* code units in ascending order, as far as the keys of the model use them
CodeUnits == "0123456789:ABCDEFGHIJKLMNOPQRSTUVWXYZ_abcdefghijklmnopqrstuvwxyz|"

codeOf(c) == CHOOSE i \in 1..Len(CodeUnits) : SubSeq(CodeUnits, i, i) = c

\* a < b for two strings, by code units
RECURSIVE ltString(_, _)
ltString(a, b) ==
    IF b = "" THEN FALSE
    ELSE IF a = "" THEN TRUE
    ELSE IF SubSeq(a, 1, 1) # SubSeq(b, 1, 1)
         THEN codeOf(SubSeq(a, 1, 1)) < codeOf(SubSeq(b, 1, 1))
    ELSE ltString(SubSeq(a, 2, Len(a)), SubSeq(b, 2, Len(b)))

\* the comparators of the three sorts: by tradeKey (the order of a primary
\* key), (a.datetime<b.datetime?1:-1) and (a.datetime>b.datetime?1:-1)
compare(by, a, b) ==
    CASE by = "key" -> IF ltString(b.tradeKey, a.tradeKey) THEN 1 ELSE 0 - 1
      [] by = "desc" -> IF gtText(b.datetime, a.datetime) THEN 1 ELSE 0 - 1
      [] OTHER -> IF gtText(a.datetime, b.datetime) THEN 1 ELSE 0 - 1

\* Array.prototype.sort as an insertion sort: an element moves left past
\* the elements the comparator puts after it.  These comparators never
\* answer 0, so two entries with the same datetime stay as they stood
RECURSIVE insertInto(_, _, _)
insertInto(sorted, x, by) ==
    IF sorted = <<>> \/ compare(by, sorted[Len(sorted)], x) <= 0
    THEN Append(sorted, x)
    ELSE Append(insertInto(SubSeq(sorted, 1, Len(sorted) - 1), x, by),
                sorted[Len(sorted)])

RECURSIVE sortBy(_, _)
sortBy(items, by) ==
    IF items = <<>> THEN <<>>
    ELSE insertInto(sortBy(SubSeq(items, 1, Len(items) - 1), by),
                    items[Len(items)], by)

\* db.trades.toArray(): in the order of the primary key, which is tradeKey
\* in part_000 and the auto-incremented id elsewhere
toArray(v, table) == IF v = "part_000" THEN sortBy(table, "key") ELSE table

\* mapDays[state.range] for the range a script starts with
rangeDays(v) == IF v \in {"app1", "app3"} THEN 365 ELSE 7

\* the latest datetime text: items.reduce((m,t)=>(t.datetime>m?t.datetime:m))
RECURSIVE latestOf(_, _)
latestOf(items, m) ==
    IF items = <<>> THEN m
    ELSE latestOf(Tail(items),
                  IF gtText(Head(items).datetime, m) THEN Head(items).datetime ELSE m)

\* getFilteredTrades(): the rows within the range, newest first.  With an
\* unparseable latest datetime rangeCutoffIso throws a RangeError
getFilteredTrades(v, table) ==
    LET all == toArray(v, table)
        nowRef == IF all = <<>> THEN <<0>>
                  ELSE parseDate(latestOf(all, all[1].datetime))
        cutoff == IsoMs(nowRef[1] - rangeDays(v) * DayLen)
        inRange(t) == ~gtText(cutoff, t.datetime)
    IN  IF nowRef = <<>> THEN [threw |-> TRUE, items |-> <<>>]
        ELSE [threw |-> FALSE, items |-> sortBy(SelectSeq(all, inRange), "desc")]

\* renderAll's figures: the KPIs and the cumulative values of the chart
renderAll(v, table) ==
    LET got == getFilteredTrades(v, table)
        shown == [i \in DOMAIN got.items |-> asJson(got.items[i])]
        k == aggregateKPIs(shown)
        tradesAsc == sortBy(shown, "asc")
        pts == buildEquitySeries(tradesAsc)
    IN  [threw |-> got.threw,
         net |-> k.net, wins |-> k.wins, count |-> k.count,
         ys |-> [i \in DOMAIN pts |-> pts[i].y]]

\* the rows ingested one at a time; "k4" has the datetime of "k2"
OrderRows ==
    {jsonRow("k1", IsoSec(1), 10, 0), jsonRow("k2", IsoSec(2), 0 - 4, 0),
     jsonRow("k3", IsoSec(3), 2, 0), jsonRow("k4", IsoSec(2), 2, 0)}

noDraws == [i \in 1..MaxDraws |-> ""]

\* the table after the rows of `order` were synced one after the other
RECURSIVE tableAfter(_, _, _)
tableAfter(v, table, order) ==
    IF order = <<>> THEN table
    ELSE tableAfter(v,
             upsertTrades(v, table,
                 syncRows(v, rowsPayload("api:one", <<Head(order)>>), 0, noDraws)).table,
             Tail(order))

NoRender == [op |-> "init", order |-> <<>>, shown |-> renderAll("part_000", <<>>)]

InitOrder ==
    /\ variant \in Variants
    /\ hostTz = 0
    /\ trades = <<>>
    /\ tasks = <<>>
    /\ timer = FALSE
    /\ state = state0
    /\ localStorage = NoCache
    /\ last = NoRender

\* a sync of a snapshot that holds one new row
IngestOne ==
    /\ Len(trades) < MaxStore
    /\ \E r \in OrderRows :
          /\ r.tradeKey \notin Keys(trades)
          /\ trades' = tableAfter(variant, trades, <<r>>)
          /\ last' = [NoRender EXCEPT !.op = "ingest", !.order = Append(last.order, r)]
    /\ UNCHANGED <<state, localStorage, variant, hostTz, tasks, timer>>

\* renderAll after the ingestion
RenderAll ==
    /\ last.op = "ingest"
    /\ last' = [last EXCEPT !.op = "render", !.shown = renderAll(variant, trades)]
    /\ UNCHANGED <<state, localStorage, variant, hostTz, trades, tasks, timer>>

NextOrder == IngestOne \/ RenderAll

SpecOrder == InitOrder /\ [][NextOrder]_vars

\* ------------------------------------------------- percentages of a base
\* A percentage figure is [kind, n, d]: "num" for the number n/d,
\* "infinity" and "nan" for the outcomes of a division by 0, "unavailable"
\* for the dash the page shows instead of a number.

Unavailable == [kind |-> "unavailable", n |-> 0, d |-> 1]

\* n / d as JavaScript computes it
quotient(n, d) ==
    IF d # 0 THEN [kind |-> "num", n |-> n, d |-> d]
    ELSE IF n = 0 THEN [kind |-> "nan", n |-> 0, d |-> 0]
    ELSE [kind |-> "infinity", n |-> n, d |-> 0]

\* loadDeposits(): Number(obj?.KRAKEN ?? 0) || 0 for each exchange
loadDeposits(stored) ==
    [KRAKEN |-> amountOr0(stored.KRAKEN), BLOFIN |-> amountOr0(stored.BLOFIN)]

\* depositsForCurrentExchange(depositsObj)
depositsForCurrentExchange(deposits, exchangeFilter) ==
    CASE exchangeFilter = "KRAKEN" -> deposits.KRAKEN
      [] exchangeFilter = "BLOFIN" -> deposits.BLOFIN
      [] OTHER -> deposits.KRAKEN + deposits.BLOFIN

\* renderAnalyseCalendar, summary: the text of calTotalPct
calTotalPct(totalPnlUsd, baseUsd) ==
    IF baseUsd # 0 THEN quotient(totalPnlUsd * 100, baseUsd) ELSE Unavailable

\* drawLineChart: the pct of a point, which formatExtra prints as "(pct%)";
\* baseVal is the value of the first point
pointPct(val, percentBase, baseVal, percentMode) ==
    IF percentBase > 0
    THEN (IF percentMode = "total"
          THEN quotient((val - percentBase) * 100, percentBase)
          ELSE quotient(val * 100, percentBase))
    ELSE IF baseVal # 0 THEN quotient((val - baseVal) * 100, abs(baseVal))
    ELSE quotient(0, 1)

\* setupInteractiveLineChart, drawAt: the "Return" of the tooltip, over the
\* start balance kept under "pnl_start_balance_usd"; fmtPct prints NaN as
\* the dash
returnPct(val, startBalance) ==
    LET base == amountOr0(startBalance)
    IN  IF base # 0 THEN quotient(val * 100, base) ELSE Unavailable

PctAmounts == {-4, 0, 6}
StoredDeposits ==
    [KRAKEN : {<<>>, <<0>>, <<5>>}, BLOFIN : {<<>>, <<0>>, <<7>>}]
ExchangeFilters == {"ALL", "KRAKEN", "BLOFIN"}
StartBalances == {<<>>, <<0>>, <<10>>}
ChartModes == {"pnl", "total"}

NoPct == [op |-> "init", stored |-> [KRAKEN |-> <<>>, BLOFIN |-> <<>>],
          exchangeFilter |-> "ALL", start |-> <<>>, baseUsd |-> 0,
          figures |-> <<>>]

InitPct ==
    /\ variant = "part_000"
    /\ hostTz = 0
    /\ trades = <<>>
    /\ tasks = <<>>
    /\ timer = FALSE
    /\ state = state0
    /\ localStorage = NoCache
    /\ \E s \in StoredDeposits, f \in ExchangeFilters, b \in StartBalances :
           last = [NoPct EXCEPT !.stored = s, !.exchangeFilter = f, !.start = b,
                       !.baseUsd = depositsForCurrentExchange(loadDeposits(s), f)]

\* renderAnalyseCalendar writes the month's total as a percentage
CalendarSummary ==
    /\ last.op = "init"
    /\ \E total \in PctAmounts :
           last' = [last EXCEPT !.op = "calendar",
                                !.figures = <<calTotalPct(total, last.baseUsd)>>]
    /\ UNCHANGED <<state, localStorage, variant, hostTz, trades, tasks, timer>>

\* drawLineChart computes a point's percentage and the tooltip shows the
\* point
ChartTooltip ==
    /\ last.op = "init"
    /\ \E val \in PctAmounts, first \in PctAmounts, mode \in ChartModes :
           last' = [last EXCEPT !.op = "tooltip",
                        !.figures =
                            <<pointPct(val,
                                       convertUsdToSelected(state, last.baseUsd).value,
                                       first, mode),
                              returnPct(val, last.start)>>]
    /\ UNCHANGED <<state, localStorage, variant, hostTz, trades, tasks, timer>>

NextPct == CalendarSummary \/ ChartTooltip

SpecPct == InitPct /\ [][NextPct]_vars

\* ------------------------------------------- one source row into the store

FeeVals == {-2, 0, 1}
MaxCopies == 2

\* the same row n times over
copiesOf(x, n) == [i \in 1..n |-> x]

\* snapshots of one row, or of the same row repeated, with or without a
\* tradeKey, whose fees carry either sign, in both shapes
FeePayloads ==
    {rowsPayload("api:fee", copiesOf(jsonRow(key, IsoSec(1), net, fees), n)) :
        key \in {"kf", ""}, net \in {-3, 5}, fees \in FeeVals, n \in 1..MaxCopies}
    \cup {[id |-> "api:legacyfee", shape |-> "closed_trades", rows |-> <<>>,
           closed_trades |-> <<[closedTrade EXCEPT !.fees = <<fees>>]>>] :
             fees \in FeeVals}

NoSource == [op |-> "source", from |-> "", type |-> "",
             data |-> rowsPayload("", <<>>), objs |-> <<>>, batch |-> <<>>]

InitStore ==
    /\ state = state0
    /\ localStorage = NoCache
    /\ variant \in Variants
    /\ hostTz = 0
    /\ trades = <<>>
    /\ tasks = <<>>
    /\ timer = FALSE
    /\ \/ \E data \in FeePayloads :
             last = [NoSource EXCEPT !.from = "api", !.data = data]
       \/ \E type \in TypesOf(variant), n \in 1..MaxCopies : \E o \in RowsOf(type) :
             last = [NoSource EXCEPT !.from = "csv", !.type = type,
                                     !.objs = copiesOf(o, n)]

\* the sync normalizes the snapshot and upserts it
StoreSnapshot ==
    /\ last.op = "source" /\ last.from = "api"
    /\ \E now \in Clock(syncReadsClock(variant, last.data)),
          rnds \in Draws(variant, last.data.rows) :
           LET called == syncCalls(variant, last.data)
               rows == IF called THEN syncRows(variant, last.data, now, rnds) ELSE <<>>
           IN  /\ trades' = upsertTrades(variant, trades, rows).table
               /\ last' = [last EXCEPT !.op = "stored", !.batch = rows]
    /\ UNCHANGED <<state, localStorage, variant, hostTz, tasks, timer>>

\* the import normalizes the file's row and upserts it
StoreCsv ==
    /\ last.op = "source" /\ last.from = "csv"
    /\ \E now \in Clock(importReadsClock(variant, last.type, last.objs)),
          rnds \in Draws(variant, <<>>) :
           LET rows == importRows(variant, last.type, last.objs, now, rnds, hostTz)
           IN  /\ trades' = upsertTrades(variant, trades, rows).table
               /\ last' = [last EXCEPT !.op = "stored", !.batch = rows]
    /\ UNCHANGED <<state, localStorage, variant, hostTz, tasks, timer>>

NextStore == StoreSnapshot \/ StoreCsv

SpecStore == InitStore /\ [][NextStore]_vars


\* ------------------------------------------- header names in another casing

Casings == {"asis", "upper", "lower"}

recase(casing, s) ==
    CASE casing = "upper" -> toUpperCase(s)
      [] casing = "lower" -> toLowerCase(s)
      [] OTHER -> s

\* the header row of the same file written in another casing, with or
\* without a byte order mark before its first name
rewritten(headers, casing, bom) ==
    [i \in DOMAIN headers |->
        (IF bom /\ i = 1 THEN BOM ELSE "") \o recase(casing, headers[i])]

CaseHeaders ==
    {BlofinHeaders, KrakenHeaders, LogHeaders, Tail(BlofinHeaders),
     Tail(KrakenHeaders), Tail(LogHeaders), <<"date", "amount">>}

InitCase ==
    /\ state = state0
    /\ localStorage = NoCache
    /\ variant \in Variants
    /\ hostTz = 0
    /\ trades = <<>>
    /\ tasks = <<>>
    /\ timer = FALSE
    /\ \E hs \in CaseHeaders, c \in Casings, b \in BOOLEAN :
           last = [op |-> "headers", headers |-> hs, casing |-> c, bom |-> b,
                   type |-> "", other |-> ""]

\* detectCsvType on the header row as written and on the rewritten one
DetectBoth ==
    /\ last.op = "headers"
    /\ last' = [last EXCEPT
                   !.op = "detect",
                   !.type = detectCsvType(variant, last.headers),
                   !.other = detectCsvType(variant,
                                 rewritten(last.headers, last.casing, last.bom))]
    /\ UNCHANGED <<state, localStorage, variant, hostTz, trades, tasks, timer>>

NextCase == DetectBoth

SpecCase == InitCase /\ [][NextCase]_vars


\* ------------------------------------------------- fetches and timeouts
\* Two requests may be in flight, the snapshot's (slot 1) and the FX rate's
\* (slot 2).  A provider answers, fails, or never does either; only a fetch
\* given an AbortController's signal has a timer that ends it.

FetchKinds == <<"sync", "fx">>

\* is the fetch made through fetchJsonWithTimeout?
hasTimeout(v, kind) == kind = "fx" /\ v = "part_000"

Slot(kind, pc, provider, armed, outcome) ==
    [kind |-> kind, pc |-> pc, provider |-> provider, armed |-> armed,
     outcome |-> outcome]

\* the slot after its fetch has failed (rejected, not ok, or aborted): the
\* FX loop goes on to its next provider, the last failure ends the cycle as
\* offline
afterFailure(v, s) ==
    IF s.kind = "fx" /\ s.provider < Len(providersOf(v))
    THEN Slot(s.kind, "fetch", s.provider + 1, hasTimeout(v, s.kind), "")
    ELSE Slot(s.kind, "done", s.provider, FALSE, "offline")

InitNet ==
    /\ state = state0
    /\ localStorage = NoCache
    /\ variant \in Variants
    /\ hostTz = 0
    /\ trades = <<>>
    /\ timer = FALSE
    /\ tasks = [k \in DOMAIN FetchKinds |-> Slot(FetchKinds[k], "idle", 0, FALSE, "")]
    /\ last = [op |-> "init", kind |-> ""]

\* syncFromApiIntoDb / fetchFxRate issues its (first) fetch
StartFetch(k) ==
    /\ tasks[k].pc \in {"idle", "done"}
    /\ tasks' = [tasks EXCEPT ![k] = Slot(FetchKinds[k], "fetch", 1,
                                          hasTimeout(variant, FetchKinds[k]), "")]
    /\ last' = [op |-> "fetch", kind |-> FetchKinds[k]]
    /\ UNCHANGED <<state, localStorage, variant, hostTz, trades, timer>>

\* the provider answers: the cycle runs to its end
Answered(k) ==
    /\ tasks[k].pc = "fetch"
    /\ tasks' = [tasks EXCEPT ![k] = Slot(FetchKinds[k], "done", tasks[k].provider,
                                          FALSE, "ok")]
    /\ last' = [op |-> "answer", kind |-> FetchKinds[k]]
    /\ UNCHANGED <<state, localStorage, variant, hostTz, trades, timer>>

\* the fetch rejects or the status is not ok: the catch block
Failed(k) ==
    /\ tasks[k].pc = "fetch"
    /\ tasks' = [tasks EXCEPT ![k] = afterFailure(variant, tasks[k])]
    /\ last' = [op |-> "failure", kind |-> FetchKinds[k]]
    /\ UNCHANGED <<state, localStorage, variant, hostTz, trades, timer>>

\* the setTimeout of fetchJsonWithTimeout fires: ctl.abort() rejects the
\* fetch
Abort(k) ==
    /\ tasks[k].pc = "fetch"
    /\ tasks[k].armed
    /\ tasks' = [tasks EXCEPT ![k] = afterFailure(variant, tasks[k])]
    /\ last' = [op |-> "abort", kind |-> FetchKinds[k]]
    /\ UNCHANGED <<state, localStorage, variant, hostTz, trades, timer>>

NextNet ==
    \E k \in DOMAIN FetchKinds : StartFetch(k) \/ Answered(k) \/ Failed(k) \/ Abort(k)

\* a timer that is armed fires; whether a provider ever answers is not the
\* program's to decide
SpecNet ==
    InitNet /\ [][NextNet]_vars /\ \A k \in DOMAIN FetchKinds : WF_vars(Abort(k))


\* ------------------------------------------------ batches with bad entries
\* An entry of a batch is null or a row; a row may lack its tradeKey.

MaxBatch == 2

NullEntry == [null |-> TRUE, row |-> rawRow(jsonRow("", NoDate, 0, 0))]
RowEntry(r) == [null |-> FALSE, row |-> r]

BatchEntries ==
    {NullEntry, RowEntry(rawRow(jsonRow("k1", IsoSec(1), 5, 1))),
     RowEntry(rawRow(jsonRow("k2", IsoSec(2), 0 - 3, 0))),
     RowEntry(rawRow(jsonRow("", IsoSec(3), 2, 0)))}

Batches == UNION {[1..n -> BatchEntries] : n \in 1..MaxBatch}

\* does upsertTrades read a property of a null entry?  The first script of
\* app.js tests `r && r.tradeKey`; the others read r.tradeKey at once
readsNull(v, entries) == v # "app1" /\ \E i \in DOMAIN entries : entries[i].null

\* upsertTrades(rows) on a batch that may hold null: the TypeError leaves
\* the function before anything is written
upsertBatch(v, table, entries) ==
    LET notNull(e) == ~e.null
        kept == SelectSeq(entries, notNull)
        rows == [i \in DOMAIN kept |-> kept[i].row]
        res == upsertTrades(v, table, rows)
    IN  IF readsNull(v, entries)
        THEN [table |-> table, threw |-> TRUE, added |-> 0, skipped |-> 0]
        ELSE [table |-> res.table, threw |-> FALSE, added |-> res.added,
              skipped |-> Len(entries) - res.added]

InitBatch ==
    /\ state = state0
    /\ localStorage = NoCache
    /\ variant \in Variants
    /\ hostTz = 0
    /\ trades = <<>>
    /\ tasks = <<>>
    /\ timer = FALSE
    /\ last = [op |-> "init", entries |-> <<>>, threw |-> FALSE]

UpsertBatch ==
    \E entries \in Batches :
        LET res == upsertBatch(variant, trades, entries)
        IN  /\ Len(res.table) <= MaxStore
            /\ trades' = res.table
            /\ last' = [op |-> "upsert", entries |-> entries, threw |-> res.threw]
            /\ UNCHANGED <<state, localStorage, variant, hostTz, tasks, timer>>

NextBatch == UpsertBatch

SpecBatch == InitBatch /\ [][NextBatch]_vars


\* ------------------------------------------------- the time-range filter

Ranges == {"24h", "1w", "1y", "all", "custom"}

\* mapDays[range] ?? 365
mapDays(range) ==
    CASE range \in {"24h"} -> 1
      [] range \in {"1w", "7d"} -> 7
      [] range = "2w" -> 14
      [] range \in {"1m", "30d"} -> 30
      [] range = "3m" -> 90
      [] range = "6m" -> 182
      [] OTHER -> 365

\* rangeCutoffIso(range, nowRef): <<>> for null; nowRef is an instant
rangeCutoffIso(range, nowRef) ==
    IF range = "all" THEN <<>>
    ELSE <<IsoMs(nowRef - mapDays(range) * DayLen)>>

\* getFilteredTrades() of part_000 with state.range = range and no other
\* filter set.  new Date(latest) of a text that is no date is an Invalid
\* Date, and toISOString() of the cutoff then throws a RangeError
filteredByRange(v, table, range) ==
    LET all == toArray(v, table)
        nowRef == IF all = <<>> THEN <<0>>
                  ELSE parseDate(latestOf(all, all[1].datetime))
        cutoff == IF nowRef = <<>> THEN <<>> ELSE rangeCutoffIso(range, nowRef[1])
        inRange(t) == cutoff = <<>> \/ ~gtText(cutoff[1], t.datetime)
    IN  IF nowRef = <<>> /\ range # "all" THEN [threw |-> TRUE, items |-> <<>>]
        ELSE [threw |-> FALSE, items |-> sortBy(SelectSeq(all, inRange), "desc")]

\* instants at the newest entry and on both sides of the cutoffs
NewestAt == 366 * DayLen
RangeRows ==
    {rawRow(jsonRow("r1", IsoSec(NewestAt), 1, 0)),
     rawRow(jsonRow("r2", IsoMs(NewestAt - DayLen), 2, 0)),
     rawRow(jsonRow("r3", IsoSec(NewestAt - DayLen - 1), 3, 0)),
     rawRow(jsonRow("r4", IsoMs(NewestAt - 7 * DayLen), 4, 0)),
     rawRow(jsonRow("r5", IsoSec(NewestAt - 7 * DayLen - 1), 5, 0)),
     rawRow(jsonRow("r6", IsoSec(0), 6, 0)),
     rawRow(jsonRow("r7", RawText("31/Jan/", NewestAt + 1), 7, 0))}

InitRange ==
    /\ state = state0
    /\ localStorage = NoCache
    /\ variant = "part_000"
    /\ hostTz = 0
    /\ trades = <<>>
    /\ tasks = <<>>
    /\ timer = FALSE
    /\ last = [op |-> "init", range |-> "1w", threw |-> FALSE, items |-> <<>>]

\* an import or sync that brings one new entry
StoreOne ==
    /\ Len(trades) < MaxStore
    /\ \E r \in RangeRows :
          /\ r.tradeKey \notin Keys(trades)
          /\ trades' = upsertTrades(variant, trades, <<r>>).table
    /\ last' = [last EXCEPT !.op = "store", !.threw = FALSE, !.items = <<>>]
    /\ UNCHANGED <<state, localStorage, variant, hostTz, tasks, timer>>

\* the range control changes and renderAll calls getFilteredTrades()
RangeChange ==
    \E range \in Ranges :
        LET got == filteredByRange(variant, trades, range)
        IN  /\ last' = [op |-> "filtered", range |-> range, threw |-> got.threw,
                        items |-> got.items]
            /\ UNCHANGED <<state, localStorage, variant, hostTz, trades, tasks, timer>>

NextRange == StoreOne \/ RangeChange

SpecRange == InitRange /\ [][NextRange]_vars


\* ------------------------------------------------------- the calendar
\* Months have MonthLen days and weeks WeekLen days; a year has 12 months
\* and instant 0 opens month 1 of EpochYear.  Amounts are counted in units
\* of 1e-8, so that eps = 1e-7 is Eps units.

WeekLen == 3
MaxYears == 1
EpochYear == 1970
Eps == 10

\* d.getUTCFullYear() and d.getUTCMonth() + 1 of an instant
fullYearOf(t) == EpochYear + utcMonthOf(t) \div 12
monthOf(t) == (utcMonthOf(t) % 12) + 1

\* Date.UTC(y, m - 1, 1), as a day number; m = 13 is month 1 of y + 1
monthStart(y, m) == ((y - EpochYear) * 12 + (m - 1)) * MonthLen

\* startOfWeekUTC(d), on day numbers: dow counts from Monday, and day 0 is
\* the fourth day of its week
startOfWeekUTC(day) == day - ((day + 3) % WeekLen)

addDaysUTC(day, n) == day + n

\* the entries with a datetime that new Date() can read
dated(items) ==
    LET ok(t) == t.datetime.k # "none" /\ parseDate(t.datetime) # <<>>
    IN  SelectSeq(items, ok)

\* the sum of a week's tile with no test of the month
weekPnlWhole(items, ws, we, ms, me) ==
    LET in(t) == /\ parseDate(t.datetime)[1] >= ws * DayLen
                 /\ parseDate(t.datetime)[1] < we * DayLen
    IN  sumOf(SelectSeq(dated(items), in), "netPnlUsd")

\* the sum of the tile [ws, we): entries of the week that lie in the month
weekPnl(items, ws, we, ms, me) ==
    LET in(t) == /\ parseDate(t.datetime)[1] >= ws * DayLen
                 /\ parseDate(t.datetime)[1] < we * DayLen
                 /\ parseDate(t.datetime)[1] >= ms * DayLen
                 /\ parseDate(t.datetime)[1] < me * DayLen
    IN  sumOf(SelectSeq(dated(items), in), "netPnlUsd")

\* for (ws = firstWeekStart; ws < monthEnd; ws = addDaysUTC(ws, 7))
RECURSIVE weekTilesFrom(_, _, _, _)
weekTilesFrom(items, ws, ms, me) ==
    IF ws >= me THEN <<>>
    ELSE LET we == addDaysUTC(ws, WeekLen)
             pnl == weekPnl(items, ws, we, ms, me)
         IN  <<[ws |-> ws, we |-> we, pnl |-> pnl,
                cls |-> IF pnl > Eps THEN "gain"
                        ELSE IF pnl < 0 - Eps THEN "loss" ELSE "flat"]>>
             \o weekTilesFrom(items, we, ms, me)

\* renderAnalyseCalendar, week view of month m of year y: the tiles and the
\* summary's counters
renderWeeks(items, y, m) ==
    LET ms == monthStart(y, m)
        me == monthStart(y, m + 1)
        tiles == weekTilesFrom(items, startOfWeekUTC(ms), ms, me)
        count(c) == Cardinality({i \in DOMAIN tiles : tiles[i].cls = c})
    IN  [tiles |-> tiles,
         totalPnlUsd |-> sumOf([i \in DOMAIN tiles |-> [netPnlUsd |-> <<tiles[i].pnl>>]],
                               "netPnlUsd"),
         win |-> count("gain"), lose |-> count("loss"), be |-> count("flat")]

\* the most recent year-month that holds an entry
mostRecent(items) ==
    LET ts == {parseDate(dated(items)[i].datetime)[1] : i \in DOMAIN dated(items)}
        t == CHOOSE t \in ts : \A u \in ts : utcMonthOf(u) <= utcMonthOf(t)
    IN  [y |-> fullYearOf(t), m |-> monthOf(t)]

\* a nav that does not carry into the year
navStay(y, m, delta) ==
    [y |-> y, m |-> IF m + delta <= 0 THEN 12 ELSE IF m + delta >= 13 THEN 1 ELSE m + delta]

\* nav(delta): the year and month after a click on prev (-1) or next (+1)
nav(y, m, delta) ==
    IF m + delta <= 0 THEN [y |-> y - 1, m |-> 12]
    ELSE IF m + delta >= 13 THEN [y |-> y + 1, m |-> 1]
    ELSE [y |-> y, m |-> m + delta]

CalTimes ==
    {11 * MonthLen * DayLen + 1, 12 * MonthLen * DayLen,
     12 * MonthLen * DayLen + DayLen + 1, 13 * MonthLen * DayLen}
CalDates == {IsoMs(t) : t \in CalTimes} \cup {NoDate, RawText("31/Jan/", 0)}
CalNets == {<<0 - 11>>, <<>>, <<10>>}
CalEntries == {[datetime |-> d, netPnlUsd |-> n] : d \in CalDates, n \in CalNets}
CalLists == UNION {[1..n -> CalEntries] : n \in 1..MaxList}

\* the calendar as drawn: calYear, calMonth and calSelected of `state`, the
\* entries it was drawn from, and the week tiles
Drawn(op, items, y, m, selected) ==
    [op |-> op, items |-> items, calYear |-> y, calMonth |-> m,
     calSelected |-> selected, from |-> [y |-> y, m |-> m],
     shown |-> renderWeeks(items, y, m)]

\* the first renderAnalyseCalendar: the month of the most recent entry
InitCal ==
    /\ state = state0
    /\ localStorage = NoCache
    /\ variant = "part_000"
    /\ hostTz = 0
    /\ trades = <<>>
    /\ tasks = <<>>
    /\ timer = FALSE
    /\ \E items \in CalLists :
          /\ dated(items) # <<>>
          /\ last = Drawn("init", items, mostRecent(items).y, mostRecent(items).m, <<>>)

\* a click on calPrev or calNext
Nav(delta) ==
    LET to == nav(last.calYear, last.calMonth, delta)
    IN  /\ to.y \in EpochYear..(EpochYear + MaxYears)
        /\ last' = [Drawn(IF delta < 0 THEN "prev" ELSE "next", last.items,
                          to.y, to.m, <<>>)
                    EXCEPT !.from = [y |-> last.calYear, m |-> last.calMonth]]
        /\ UNCHANGED <<state, localStorage, variant, hostTz, trades, tasks, timer>>

\* a click on a week tile selects it
SelectTile ==
    /\ \E i \in DOMAIN last.shown.tiles :
           last' = [Drawn("select", last.items, last.calYear, last.calMonth,
                          <<last.shown.tiles[i].ws>>)
                    EXCEPT !.from = last.from]
    /\ UNCHANGED <<state, localStorage, variant, hostTz, trades, tasks, timer>>

NextCal == Nav(0 - 1) \/ Nav(1) \/ SelectTile

SpecCal == InitCal /\ [][NextCal]_vars


\* ================================================================ claims

IsIngest(l) == l.op \in {"sync", "import"} /\ l.ok

\* the rows of a batch whose key the table held / did not hold before
KnownIn(batch, table) == {i \in DOMAIN batch : batch[i].tradeKey \in Keys(table)}
NewIn(batch, table) == {i \in DOMAIN batch : batch[i].tradeKey \notin Keys(table)}

\* C1: ingesting the same unchanged source (file or snapshot) once more
\* leaves the stored entries, count and content, exactly as the previous
\* ingestion of that source left them.
C1_IdempotentIngestion ==
    [][(IsIngest(last') /\ last'.again /\ IsIngest(last)) => trades' = trades]_vars

\* C2: upsertTrades reports added = the number of batch entries whose key
\* the store did not hold before the call and skipped = the number whose
\* key it held, so a second import of the same file reports added = 0.
C2_AddedSkippedCounts ==
    [][last'.upsert =>
          /\ last'.added = Cardinality(NewIn(last'.batch, trades))
          /\ last'.skipped = Cardinality(KnownIn(last'.batch, trades))]_vars

\* C3: in every reachable state no two stored rows share a tradeKey.
C3_NoSharedKey ==
    \A i, j \in DOMAIN trades : trades[i].tradeKey = trades[j].tradeKey => i = j

\* C4: an upserted entry whose key the store already held replaces the
\* stored entry as a whole: afterwards every stored row with that key
\* equals the entry the batch gave last for it.
C4_LastWriteWins ==
    [][last'.upsert =>
          \A i \in KnownIn(last'.batch, trades) :
              (\A k \in DOMAIN last'.batch :
                   last'.batch[k].tradeKey = last'.batch[i].tradeKey => k <= i)
              => \A j \in DOMAIN trades' :
                     trades'[j].tradeKey = last'.batch[i].tradeKey
                     => trades'[j] = last'.batch[i]]_vars

InFlight(kinds) == {i \in DOMAIN tasks : tasks[i].kind \in kinds}

\* C5: at most one ingestion cycle (sync + upsertTrades + renderAll, begun
\* by init or by a timer tick) is in flight at any time, also when a cycle
\* has been running for REFRESH_MS or longer.
C5_OneCycleInFlight == Cardinality(InFlight(Cycles)) <= 1

\* C6: no aggregation read (renderAll / getFilteredTrades reading
\* db.trades) is issued while an upsertTrades call is between its start and
\* its completion, and every read sees none or all of a batch in flight.
C6_NoReadDuringUpsert ==
    last.op = "read" =>
        /\ \A i \in DOMAIN tasks : tasks[i].pc \notin UpsertPcs
        /\ \A i \in DOMAIN tasks :
               tasks[i].pc = "bulk" =>
                   \/ Range(tasks[i].rows) \subseteq Range(last.seen)
                   \/ Range(tasks[i].rows) \cap Range(last.seen) = {}

Names(v, names) ==
    IF v \in {"app1", "app3"} THEN {toLowerCase(n) : n \in names} ELSE names

Seen(v, headers) ==
    IF v \in {"app1", "app3"} THEN {toLowerCase(h) : h \in Range(headers)}
    ELSE Range(headers)

\* the signature sets of a format: the format is selected only if all the
\* names of one of them are present
Signatures(v, type) ==
    CASE type = "BLOFIN_ORDER_HISTORY" /\ v # "app3" ->
            {Names(v, {"Underlying Asset", "Order Time", "PNL", "Fee"})}
      [] type = "KRAKEN_TRADES" /\ v = "app1" -> {{"txid", "pair", "time"}}
      [] type = "KRAKEN_TRADES" /\ v \in {"part_000", "part_001"} ->
            {{"txid", "ordertype", "pair", "time"}}
      [] type = "KRAKEN_FUTURES_ACCOUNT_LOG" /\ v = "app1" ->
            {{"uid", "datetime", "type", "realized pnl"}}
      [] type = "KRAKEN_FUTURES_ACCOUNT_LOG" /\ v = "app3" ->
            {{"uid", "datetime", "type", "realized pnl", "fee", "realized funding"}}
      [] type = "KRAKEN_FUTURES_ACCOUNT_LOG" /\ v \in {"part_000", "part_001"} ->
            {{"uid", "dateTime", "type", "change", "contract"},
             {"uid", "dateTime", "type", "change", "symbol"}}
      [] OTHER -> {}

Matches(v, headers, type) ==
    \E sig \in Signatures(v, type) : sig \subseteq Seen(v, headers)

RuleOrder == <<"BLOFIN_ORDER_HISTORY", "KRAKEN_TRADES", "KRAKEN_FUTURES_ACCOUNT_LOG">>

\* C8: detectCsvType selects a format only if all names of its signature
\* are present, takes the first rule in the fixed order that matches,
\* answers UNKNOWN when none does, and always answers one of the four tags.
C8_DetectConjunctiveOrdered ==
    last.op = "detect" =>
        /\ last.type \in CsvTypes
        /\ (last.type # "UNKNOWN" => Matches(variant, last.headers, last.type))
        /\ \A i \in DOMAIN RuleOrder :
               (Matches(variant, last.headers, RuleOrder[i])
                /\ \A k \in 1..(i - 1) : ~Matches(variant, last.headers, RuleOrder[k]))
               => last.type = RuleOrder[i]
        /\ ((\A i \in DOMAIN RuleOrder : ~Matches(variant, last.headers, RuleOrder[i]))
            => last.type = "UNKNOWN")

\* a header list that satisfies two signatures got the first of them
C8_Witness ==
    /\ last.op = "detect"
    /\ last.type = "KRAKEN_TRADES"
    /\ Matches(variant, last.headers, "KRAKEN_FUTURES_ACCOUNT_LOG")

\* C9: every entry a normalizer produces from a row without an
\* authoritative net value has netPnlUsd = realizedPnlUsd - feesUsd +
\* fundingUsd.
C9_NetIsDerived ==
    last.op = "normalize" =>
        \A i \in DOMAIN last.out :
            Get(last.objs[1], "net") = ""
            => last.out[i].netPnlUsd =
                   last.out[i].realizedPnlUsd - last.out[i].feesUsd
                       + last.out[i].fundingUsd

\* C10: no stored entry lacks a resolvable timestamp: none has a missing or
\* unparseable datetime, none carries the clock's time in its place.
C10_StoredTimestampsResolve ==
    \A i \in DOMAIN trades :
        /\ trades[i].datetime.k \in {"isoMs", "isoSec"}
        /\ trades[i].datetime.t \notin NowVals

\* the keys of a batch, in the batch's order
keysOf(batch) == [i \in DOMAIN batch |-> batch[i].tradeKey]

\* C11: key derivation is deterministic: processing the identical source a
\* second time yields the identical sequence of keys, also for the rows
\* that carry no tradeKey of their own.
C11_KeysDeterministic ==
    [][(IsIngest(last) /\ last.upsert /\ IsIngest(last') /\ last'.upsert
        /\ last'.again)
       => keysOf(last'.batch) = keysOf(last.batch)]_vars

\* C12: convertUsdToSelected returns its input unchanged when the selected
\* currency is USD or when state.fx holds no rate, returns the input times
\* the cached rate otherwise, and throws for no state of the FX cache.
C12_ConvertUsdToSelected ==
    last.op = "convert" =>
        /\ ~last.threw
        /\ last.out = IF state.currency = "USD" \/ ~truthy(usdToEurOf(state.fx))
                      THEN last.usd
                      ELSE last.usd * usdToEurOf(state.fx)[1]

\* an amount was converted at a cached rate
C12_Witness ==
    /\ last.op = "convert"
    /\ state.currency = "EUR"
    /\ truthy(usdToEurOf(state.fx))
    /\ last.usd # 0
    /\ last.out = last.usd * usdToEurOf(state.fx)[1]

\* C13: when every FX provider fails, fetchFxRate returns without raising
\* and leaves the rate it had in state.fx and the persisted text as they
\* were; a fetch that succeeds puts the first successful provider's rate
\* in both.
C13_FxFailureKeepsRate ==
    last.op = "fetchFx" =>
        /\ ~last.threw
        /\ ~last.ok =>
              /\ localStorage = last.before.cache
              /\ truthy(usdToEurOf(last.before.fx))
                    => usdToEurOf(state.fx) = usdToEurOf(last.before.fx)
              /\ usdToEurOf(state.fx) \in
                    {usdToEurOf(last.before.fx), usdToEurOf(last.before.cache)}
        /\ last.ok =>
              LET i == CHOOSE i \in DOMAIN providersOf(variant) :
                         /\ truthy(last.answers[i])
                         /\ \A k \in 1..(i - 1) : ~truthy(last.answers[k])
              IN  /\ usdToEurOf(state.fx) = last.answers[i]
                  /\ usdToEurOf(localStorage) = last.answers[i]

\* every provider failed and the rate fetched earlier is still there
C13_Witness ==
    /\ last.op = "fetchFx"
    /\ ~last.ok
    /\ truthy(usdToEurOf(last.before.fx))
    /\ usdToEurOf(state.fx) = usdToEurOf(last.before.fx)
    /\ localStorage = last.before.cache

\* C14: a failed fetch of the remote snapshot (network error, non-OK
\* status, invalid JSON) leaves the table as it was, is reported by an
\* 'offline' badge and raises nothing out of the sync function.
C14_SyncFailureDegrades ==
    [][(last'.op = "sync" /\ ~last'.ok)
       => /\ trades' = trades
          /\ ~last'.threw
          /\ contains(toLowerCase(last'.msg), "offline")]_vars

\* a sync failed while the table held rows of an earlier sync
C14_Witness ==
    /\ last.op = "sync"
    /\ ~last.ok
    /\ last.src \in FetchFailures
    /\ trades # <<>>
    /\ last.msg = offlineBadge(variant)

\* is the list in ascending order of its date strings?
Ascending(list) ==
    \A i \in 1..(Len(list) - 1) : ~gtText(list[i].datetime, list[i + 1].datetime)

\* C15: for an entry list sorted ascending by time, buildEquitySeries
\* returns one point per entry, with non-decreasing timestamps, the first
\* at the first entry's net and every later one at its predecessor plus
\* the entry's net; nothing is carried over from an earlier call.
C15_EquitySeriesCumulative ==
    (last.op = "equity" /\ Ascending(last.input)) =>
        /\ Len(last.pts) = Len(last.input)
        /\ \A i \in DOMAIN last.pts : last.pts[i].x = last.input[i].datetime
        /\ \A i \in 1..(Len(last.pts) - 1) : ~gtText(last.pts[i].x, last.pts[i + 1].x)
        /\ \A i \in DOMAIN last.pts :
               last.pts[i].y = (IF i = 1 THEN 0 ELSE last.pts[i - 1].y)
                                   + amountOr0(last.input[i].netPnlUsd)

\* a series of two points over two entries with nets other than 0
C15_Witness ==
    /\ last.op = "equity"
    /\ Ascending(last.input)
    /\ Len(last.pts) = 2
    /\ amountOr0(last.input[1].netPnlUsd) # 0
    /\ amountOr0(last.input[2].netPnlUsd) # 0
    /\ gtText(last.input[2].datetime, last.input[1].datetime)
    /\ last.pts[2].y = amountOr0(last.input[1].netPnlUsd)
                           + amountOr0(last.input[2].netPnlUsd)

RECURSIVE totalNet(_)
totalNet(buckets) ==
    IF buckets = <<>> THEN 0 ELSE Head(buckets).net + totalNet(Tail(buckets))

\* the instants the buckets of the last call cover: the trailing daysBack
\* UTC days, or the trailing MonthsBack UTC months, up to the end of the
\* day or month of the reference instant
WindowLo ==
    IF last.op = "daily"
    THEN (utcDayOf(last.now) - last.daysBack + 1) * DayLen
    ELSE (utcMonthOf(last.now) - MonthsBack + 1) * MonthLen * DayLen

WindowHi ==
    IF last.op = "daily"
    THEN (utcDayOf(last.now) + 1) * DayLen - 1
    ELSE (utcMonthOf(last.now) + 1) * MonthLen * DayLen - 1

InWindow(e) ==
    /\ e.datetime.k \in {"isoMs", "isoSec"}
    /\ WindowLo <= e.datetime.t
    /\ e.datetime.t <= WindowHi

\* the buckets the entry e is summed into
BucketsOf(e) ==
    {i \in DOMAIN last.buckets :
        IF last.op = "daily" THEN sliceDay(e.datetime) = <<last.buckets[i].key>>
        ELSE monthKeyOf(e.datetime) = <<last.buckets[i].key>>}

C18_WinrateBounds ==
    last.op = "kpis" =>
        LET k == last.kpis
        IN  /\ k.count = Len(last.input)
            /\ k.wins = Cardinality({i \in DOMAIN last.input :
                                        amountOr0(last.input[i].netPnlUsd) > 0})
            /\ k.wins <= k.count
            /\ k.winrate.d > 0
            /\ 0 <= k.winrate.n /\ k.winrate.n <= k.winrate.d
            /\ last.input = <<>> => k.winrate.n = 0
            /\ last.input # <<>> => k.winrate.n * k.count = k.wins * k.winrate.d

\* a list with a winning and a zero-net entry: one win of two
C18_Witness ==
    /\ last.op = "kpis"
    /\ last.kpis.count = 2
    /\ last.kpis.wins = 1
    /\ \E i \in DOMAIN last.input : last.input[i].netPnlUsd = <<0>>

\* the orders in which the rows of `order` can be ingested
OrdersOf(order) ==
    {p \in [DOMAIN order -> Range(order)] : Range(p) = Range(order)}

\* C16: what renderAll shows after ingestion (the cumulative values in
\* chronological order, net, wins, count) is the same for every order in
\* which the same entries are ingested.
C16_OrderIndependent ==
    last.op = "render" =>
        \A p \in OrdersOf(last.order) :
            renderAll(variant, tableAfter(variant, <<>>, p)) = last.shown

\* C19: with a deposit baseline of zero, or none, every percentage of the
\* base (the calendar's total %, the chart tooltip's %) is reported as
\* unavailable, and no percentage is the Infinity or NaN of a division by
\* zero.
C19_PercentUnavailable ==
    last.op \in {"calendar", "tooltip"} =>
        /\ \A i \in DOMAIN last.figures : last.figures[i].kind \notin {"infinity", "nan"}
        /\ last.baseUsd = 0 =>
               \A i \in DOMAIN last.figures : last.figures[i] = Unavailable

\* C20: stored entries are removed only by the reset. No step of a sync, an
\* import, an upsert, a filter change or a render makes the set of stored
\* keys smaller, and the step in which the confirmed reset issues clear()
\* leaves the table empty.
C20_OnlyResetRemoves ==
    [][IF last'.op = "clear" THEN trades' = <<>>
       ELSE Keys(trades) \subseteq Keys(trades')]_vars

\* the reset has emptied the table while a write that put rows into it has
\* not yet resumed
C20_Witness ==
    /\ last.op = "clear"
    /\ trades = <<>>
    /\ \E i \in DOMAIN tasks : tasks[i].pc = "bulk" /\ tasks[i].rows # <<>>


\* C21: every normalizer, of the CSV formats and of the remote snapshot,
\* stores feesUsd as a non-negative value whatever sign the source uses: no
\* stored entry has feesUsd < 0.
C21_FeesNonNegative ==
    \A i \in DOMAIN trades : trades[i].feesUsd >= 0


\* C22: the result of detectCsvType does not change when the header names
\* are written in another letter case, nor when a byte order mark precedes
\* the first name.
C22_DetectCaseInsensitive ==
    last.op = "detect" => last.other = last.type


\* the cells of a raw row that carry realized PnL, fees or funding
MoneyColumns ==
    {"PNL", "Fee", "pnl", "fee", "net", "funding", "realized pnl",
     "realized funding", "liquidation fee", "change"}

\* a raw row without a realized-PnL, fee or funding effect: each such cell
\* is absent, empty or zero
noEffect(o) == \A c \in MoneyColumns \cap DOMAIN o : parseNumber(o[c]) = 0

\* C23: every normalizer drops administrative rows: a raw row whose realized
\* PnL, fee and funding are all zero or absent yields no ledger entry,
\* whatever its type or status says.
C23_AdministrativeRowsDropped ==
    (last.op = "normalize" /\ noEffect(last.objs[1])) => last.out = <<>>


\* the source rows of the batch carry no natural id: no tradeKey in the
\* snapshot, no uid in the account log, no txid in the trades file (a
\* Blofin row has no id column)
lacksNaturalId ==
    CASE last.from = "api" ->
            last.data.shape = "rows" /\ last.data.rows # <<>>
            /\ last.data.rows[1].tradeKey = ""
      [] last.type = "BLOFIN_ORDER_HISTORY" -> TRUE
      [] last.type = "KRAKEN_TRADES" -> last.objs[1].txid = ""
      [] OTHER -> last.objs[1]["uid"] = ""

\* C24: two entries of one ingestion batch that lack a natural id and agree
\* on exchange, marketType, symbol, timestamp, netPnl, fees and funding get
\* distinct keys from their position in the batch, and both are stored.
\* (The entries of a batch here come from one source row repeated.)
C24_PositionalKeysDistinct ==
    (last.op = "stored" /\ Len(last.batch) >= 2 /\ lacksNaturalId)
    => (Len(trades) = Len(last.batch)
        /\ Cardinality(Keys(trades)) = Len(last.batch))


\* C25: every fetch of the remote snapshot and of the FX rate is bounded by
\* a timeout: when a provider never responds the fetch is aborted and the
\* cycle, treated as offline, completes; no cycle stays in flight for ever.
C25_FetchesComplete ==
    \A k \in DOMAIN FetchKinds : (tasks[k].pc = "fetch") ~> (tasks[k].pc = "done")


\* C26: upsertTrades commits every valid entry of a batch even when another
\* entry of the batch is malformed (null, or without its key): the call
\* does not fail and no valid entry is left out of the store.
C26_ValidEntriesCommitted ==
    last.op = "upsert" =>
        /\ ~last.threw
        /\ \A i \in DOMAIN last.entries :
               (~last.entries[i].null /\ last.entries[i].row.tradeKey # "")
               => last.entries[i].row.tradeKey \in Keys(trades)


\* the newest of the stored entries, by instant
newestStored ==
    CHOOSE r \in Range(trades) : \A q \in Range(trades) : q.datetime.t <= r.datetime.t

\* the cutoff of the view shown: mapDays[range] days before the newest entry
cutoffShown == newestStored.datetime.t - mapDays(last.range) * DayLen

\* C27: getFilteredTrades keeps an entry whose timestamp equals the cutoff
\* (inclusive lower bound) and drops the earlier ones; with the cutoff
\* anchored to the latest stored timestamp the newest entry passes for every
\* range, so a non-empty store never gives an empty view; the result is in
\* descending order of time.
C27_RangeAnchoredToLatest ==
    (last.op = "filtered" /\ trades # <<>>) =>
        /\ ~last.threw
        /\ newestStored \in Range(last.items)
        /\ \A r \in Range(trades) :
               r \in Range(last.items)
               <=> (last.range = "all" \/ r.datetime.t >= cutoffShown)
        /\ \A i \in 1..(Len(last.items) - 1) :
               last.items[i].datetime.t >= last.items[i + 1].datetime.t


\* the entries whose timestamp lies in month m of year y
inMonth(items, y, m) ==
    LET in(t) == fullYearOf(parseDate(t.datetime)[1]) = y
                 /\ monthOf(parseDate(t.datetime)[1]) = m
    IN  SelectSeq(dated(items), in)

\* the entries of `items` whose instant lies in the days [ws, we)
inDays(items, ws, we) ==
    LET in(t) == /\ parseDate(t.datetime)[1] >= ws * DayLen
                 /\ parseDate(t.datetime)[1] < we * DayLen
    IN  SelectSeq(items, in)

\* the tiles whose week holds the instant of entry t
tilesOf(t) ==
    {i \in DOMAIN last.shown.tiles :
        /\ parseDate(t.datetime)[1] >= last.shown.tiles[i].ws * DayLen
        /\ parseDate(t.datetime)[1] < last.shown.tiles[i].we * DayLen}

\* C28: in the week view every entry of the selected UTC month counts in
\* exactly one week tile and entries outside the month in none, so the
\* tiles' nets sum to the month's net; a tile is a gain above 1e-7, a loss
\* below -1e-7 and flat otherwise, and the three counters add up to the
\* number of tiles.
C28_WeekTilesConserve ==
    LET tiles == last.shown.tiles
        month == inMonth(last.items, last.calYear, last.calMonth)
    IN  /\ \A i \in DOMAIN month : Cardinality(tilesOf(month[i])) = 1
        /\ last.shown.totalPnlUsd = sumOf(month, "netPnlUsd")
        /\ \A i \in DOMAIN tiles :
               /\ tiles[i].pnl = sumOf(inDays(month, tiles[i].ws, tiles[i].we),
                                        "netPnlUsd")
               /\ tiles[i].cls = "gain" <=> tiles[i].pnl > Eps
               /\ tiles[i].cls = "loss" <=> tiles[i].pnl < 0 - Eps
               /\ tiles[i].cls \in {"gain", "loss", "flat"}
        /\ last.shown.win + last.shown.lose + last.shown.be = Len(tiles)

\* after a click on next, a month drawn with two week tiles, an entry of
\* the month in one of them and an entry of another month in the same week
C28_Witness ==
    /\ last.op = "next"
    /\ Len(last.shown.tiles) >= 2
    /\ inMonth(last.items, last.calYear, last.calMonth) # <<>>
    /\ \E i \in DOMAIN last.shown.tiles :
           /\ last.shown.tiles[i].pnl # 0
           /\ sumOf(inDays(dated(last.items), last.shown.tiles[i].ws,
                           last.shown.tiles[i].we), "netPnlUsd")
              # last.shown.tiles[i].pnl

\* C30: after any sequence of prev / next clicks calMonth is within 1..12
\* and (calYear, calMonth) has moved by exactly one calendar month per
\* click, over the year's end in both directions, so that prev then next
\* restores the pair; every navigation clears calSelected.
C30_NavByOneMonth ==
    LET at(y, m) == y * 12 + (m - 1)
    IN  /\ last.calMonth \in 1..12
        /\ last.op = "next" =>
               /\ at(last.calYear, last.calMonth) = at(last.from.y, last.from.m) + 1
               /\ last.calSelected = <<>>
               /\ nav(last.calYear, last.calMonth, 0 - 1) = last.from
        /\ last.op = "prev" =>
               /\ at(last.calYear, last.calMonth) = at(last.from.y, last.from.m) - 1
               /\ last.calSelected = <<>>
               /\ nav(last.calYear, last.calMonth, 1) = last.from

\* a next click has gone from month 12 into month 1 of the following year
C30_Witness ==
    last.op = "next" /\ last.from.m = 12 /\ last.calMonth = 1
    /\ last.calYear = last.from.y + 1


\* the stored rows that carry key k
rowsWithKey(k) == {i \in DOMAIN trades : trades[i].tradeKey = k}

\* C29: where upsertTrades reads the existing keys and then bulk-adds into
\* the auto-increment table, executions that interleave at their awaits (a
\* timer sync overlapping an import, or two overlapping timer cycles) with
\* batches that share a tradeKey never leave two stored rows with that key.
C29_CheckThenAddAtomic ==
    variant # "part_000" => \A k \in Keys(trades) : Cardinality(rowsWithKey(k)) = 1

====
